---- MODULE Spec2Model ----
(***************************************************************************)
(* A model of the execution side of the Computador repository: the loader  *)
(* (model/enlazador/enlazador.py), the memory and its terminal bridge      *)
(* (model/procesador/memory.py, controller/terminal.py) and the execution  *)
(* driver (controller/computer.py).                                        *)
(*                                                                         *)
(* Text is modelled as sequences of one-character strings, so that the     *)
(* string operations of the code (count, find, slice, replace, int,        *)
(* format) are computed as the code computes them.                         *)
(***************************************************************************)
EXTENDS Integers, Sequences, FiniteSets, TLC

VARIABLES
    \* ---- loader (Enlazador) and the memory it writes
    Memory_array,        \* Memory.array, sparse: address -> word (bit string); absent = zero word
    MACHINE_CODE_RELOC,  \* Enlazador.MACHINE_CODE_RELOC: the lines of the last image
    load_address,        \* the base address of the last load call
    load_result,         \* outcome of the last load call
    load_count,          \* number of load calls made so far
    \* ---- terminal bridge (controller/terminal.py)
    write_callback,      \* _write_callback is set (TRUE) or None (FALSE)
    next_is_number,      \* _next_is_number
    write_buffers,       \* _write_buffers: address -> [acc, ids, timer]
    timers,              \* the threading.Timer objects started so far, in creation order
    callback_log,        \* the calls made to the write callback, in invocation order
    write_log,           \* the Memory.write calls made so far, in program order
    input_queue,         \* _input_queue
    read_result,         \* outcome of the last Memory.read call
    \* ---- CPU and execution driver (controller/computer.py)
    code,                \* the program in memory, one instruction kind per cell from address 0
    PC,                  \* CPU program counter
    IR,                  \* CPU instruction register
    CU_instruction,      \* the instruction decoded by the control unit
    R4,                  \* the register the program loads its input into
    PARA_INSTRUCTION,    \* CPU.PARA_INSTRUCTION
    EN_EJECUCION,        \* CPU.EN_EJECUCION
    is_stepping,         \* Action._is_stepping
    driver_pc,           \* position of the thread running Action.execute_progam
    cpu_calls,           \* the CPU.fetch/decode/execute calls made so far, in order
    cpu_error,           \* the last exception other than InputNeeded raised by the CPU
    stop_requested,      \* a stop operation was invoked while execute_progam was looping
    \* ---- assembler (model/ensamblador/assembler_from_as.py)
    as_source,           \* the assembly source given to assemble_text, one record per line
    as_result,           \* what assemble_text returned or raised
    \* ---- compiler (model/compilador/parser_spl.py)
    ctx,                 \* the module's ParserContext; live is FALSE for None
    type_table,          \* type_table, in insertion order: <<type name, field names>>
    data_section,        \* _data_section: the label and .data lines collected so far
    array_dims,          \* array_dims: array name -> dimensions
    cc_text,             \* the statements of the text reduced so far by the running parse
    cc_body,             \* the lines generated for each of them (p[0])
    cc_result,           \* what the last compile_high_level call returned or raised
    cc_count,            \* number of compile_high_level calls made so far
    \* ---- stepping and the input callback (controller/computer.py)
    waiting_for_input,   \* Action._waiting_for_input
    input_callbacks,     \* how many times _on_input_available is in _input_callbacks
    step_result,         \* what the last Action.step call returned or raised
                         \* ("none" when stepping was started after it)
    step_count,          \* number of Action.step calls made so far
    cb_calls,            \* number of _on_input_available invocations so far
    cb_executed,         \* number of CPU.execute calls made by _on_input_available
    \* ---- calls made on one ParserContext (model/compilador/parser_spl.py)
    reg_call,            \* the last reg_for or new_temp call and what it returned
    pi_text,             \* the text given to _preprocess_indentation, line by line
    pi_result,           \* what _preprocess_indentation returned for it
    \* ---- preprocessor (model/preprocesador/preprocessor.py)
    pp_files,            \* the source files: canonical path -> lines
    pp_result,           \* what preprocess returned or raised for the root file
    \* ---- the texts behind the input queue (controller/terminal.py)
    in_texts             \* the text given to push_input for each entry of the queue

linkVars == <<MACHINE_CODE_RELOC, load_address, load_result, load_count>>

loaderVars == <<Memory_array, linkVars>>

outputVars == <<write_callback, next_is_number, write_buffers, timers,
                callback_log, write_log>>

inputVars == <<input_queue, read_result>>

cpuVars == <<PC, IR, CU_instruction, R4, PARA_INSTRUCTION, EN_EJECUCION>>

driverVars == <<code, cpuVars, is_stepping, driver_pc, cpu_calls, cpu_error,
                stop_requested>>

asmVars == <<as_source, as_result>>

compVars == <<ctx, type_table, data_section, array_dims,
              cc_text, cc_body, cc_result, cc_count>>

hostVars == <<waiting_for_input, input_callbacks, step_result, step_count,
              cb_calls, cb_executed>>

auxVars == <<reg_call, pi_text, pi_result, pp_files, pp_result, in_texts>>

toolVars == <<asmVars, compVars, hostVars, auxVars>>

vars == <<loaderVars, outputVars, inputVars, driverVars, toolVars>>

-----------------------------------------------------------------------------
(* Program constants *)

CODE_RANGE_END == 65535
WORDS_SIZE_BITS == 64
ADDRESS_BITS == 24
E_S_RANGE_START == 65536
E_S_RANGE_END == 131071

(* Bounds of the model *)

MaxImageLen == 2
MaxLoads == 2
MaxWrites == 2
MaxInputs == 2

-----------------------------------------------------------------------------
(* Text helpers: Python's str operations on sequences of characters *)

Rep(c, n) == [i \in 1..n |-> c]

\* str.count(c) for a one-character c
Count(s, c) == Cardinality({i \in DOMAIN s : s[i] = c})

\* The least element of a non-empty set of integers
SetMin(S) == CHOOSE i \in S : \A j \in S : i <= j

\* str.find(c) for a one-character c: 0-based index of the first occurrence, -1 if none
Find(s, c) ==
    LET at == {i \in DOMAIN s : s[i] = c}
    IN  IF at = {} THEN -1 ELSE SetMin(at) - 1

\* s[start:end] with 0 <= start, 0 <= end (Python slice, empty when end <= start)
Slice(s, start, end) ==
    IF end <= start THEN << >> ELSE SubSeq(s, start + 1, end)

Digits == {"0", "1", "2", "3", "4", "5", "6", "7", "8", "9"}

DigitVal(c) ==
    CASE c = "0" -> 0 [] c = "1" -> 1 [] c = "2" -> 2 [] c = "3" -> 3
      [] c = "4" -> 4 [] c = "5" -> 5 [] c = "6" -> 6 [] c = "7" -> 7
      [] c = "8" -> 8 [] c = "9" -> 9

RECURSIVE DigitsValue(_)
DigitsValue(s) ==
    IF s = << >> THEN 0
    ELSE 10 * DigitsValue(SubSeq(s, 1, Len(s) - 1)) + DigitVal(s[Len(s)])

\* int(s): an optional sign followed by at least one decimal digit; anything
\* else raises ValueError (ok = FALSE)
ParseInt(s) ==
    LET signed == s # << >> /\ s[1] \in {"-", "+"}
        body   == IF signed THEN Tail(s) ELSE s
    IN  IF body # << >> /\ \A i \in DOMAIN body : body[i] \in Digits
        THEN [ok |-> TRUE,
              val |-> IF signed /\ s[1] = "-" THEN 0 - DigitsValue(body)
                      ELSE DigitsValue(body)]
        ELSE [ok |-> FALSE, val |-> 0]

RECURSIVE ToBin(_)
ToBin(n) ==
    IF n < 2 THEN << (IF n = 1 THEN "1" ELSE "0") >>
    ELSE ToBin(n \div 2) \o << (IF n % 2 = 1 THEN "1" ELSE "0") >>

\* format(n, '024b') for n >= 0: binary, zero-padded on the left to at least 24 digits
Format024b(n) ==
    LET b == ToBin(n)
    IN  IF Len(b) >= ADDRESS_BITS THEN b ELSE Rep("0", ADDRESS_BITS - Len(b)) \o b

\* str.replace(pat, rep) for a non-empty pat: every non-overlapping occurrence,
\* left to right
RECURSIVE Replace(_, _, _)
Replace(s, pat, rep) ==
    LET at == {i \in 1..(Len(s) - Len(pat) + 1) : SubSeq(s, i, i + Len(pat) - 1) = pat}
    IN  IF at = {} THEN s
        ELSE LET i == SetMin(at)
             IN  SubSeq(s, 1, i - 1) \o rep
                     \o Replace(SubSeq(s, i + Len(pat), Len(s)), pat, rep)

\* bitarray(str) accepts only the characters 0 and 1
IsBitString(s) == \A i \in DOMAIN s : s[i] \in {"0", "1"}

ZeroWord == Rep("0", WORDS_SIZE_BITS)

-----------------------------------------------------------------------------
(* Memory (model/procesador/memory.py), as far as the loader uses it *)

\* Memory.array[direction]; a cell never written holds the zero word of set_up
MemGet(mem, a) == IF a \in DOMAIN mem THEN mem[a] ELSE ZeroWord

\* Memory.write: array[direction] = value, direction recorded in memory_changed
\* (the domain of the sparse array)
Memory_store(mem, direction, value) ==
    [a \in (DOMAIN mem) \cup {direction} |->
        IF a = direction THEN value ELSE mem[a]]

\* bus.action() under WRITE_MEMORY: the word on the data bus is written at the
\* address on the address bus
bus_action_write(mem, target_addr, instruction_bin) ==
    Memory_store(mem, target_addr, instruction_bin)

-----------------------------------------------------------------------------
(* Loader (model/enlazador/enlazador.py) *)

IsSpace(c) == c \in {" ", "\n"}

\* str.strip(): the text between its first and its last non-blank character
RECURSIVE FirstNonSpace(_, _)
FirstNonSpace(s, i) ==
    IF i > Len(s) THEN i
    ELSE IF IsSpace(s[i]) THEN FirstNonSpace(s, i + 1) ELSE i

RECURSIVE LastNonSpace(_, _)
LastNonSpace(s, i) ==
    IF i < 1 THEN i
    ELSE IF IsSpace(s[i]) THEN LastNonSpace(s, i - 1) ELSE i

Strip(s) == SubSeq(s, FirstNonSpace(s, 1), LastNonSpace(s, Len(s)))

\* str.split('\n'): the pieces between consecutive line breaks
SplitLines(s) ==
    LET nls == {i \in DOMAIN s : s[i] = "\n"}
        cut == [k \in 0..(Cardinality(nls) + 1) |->
                  IF k = 0 THEN 0
                  ELSE IF k = Cardinality(nls) + 1 THEN Len(s) + 1
                  ELSE CHOOSE i \in nls : Cardinality({j \in nls : j < i}) = k - 1]
    IN  [k \in 1..(Cardinality(nls) + 1) |-> SubSeq(s, cut[k - 1] + 1, cut[k] - 1)]

\* The check of set_machine_code on the split lines
CheckLines(lines) ==
    IF Len(lines) < 1 \/ \E i \in DOMAIN lines : Strip(lines[i]) = << >>
    THEN [ok |-> FALSE, lines |-> << >>]
    ELSE [ok |-> TRUE, lines |-> lines]

\* Enlazador.set_machine_code: the lines, or ValueError when a line is blank
set_machine_code(machine_code_reloc) ==
    CheckLines(SplitLines(Strip(machine_code_reloc)))

\* bits_count of a line before substitution: every 0 and every 1 of the line
CountBits(code_line) == Count(code_line, "0") + Count(code_line, "1")

\* The body of the loop for one line: the word to load, or an error
ProcessLine(code_line, address) ==
    IF Find(code_line, "{") # -1 /\ Find(code_line, "}") # -1
    THEN LET start       == Find(code_line, "{") + 1
             end         == Find(code_line, "}")
             natural_str == Slice(code_line, start, end)
             parsed      == ParseInt(natural_str)
         IN  IF ~parsed.ok \/ parsed.val < 0
             THEN [ok |-> FALSE, word |-> << >>]
             ELSE LET direccion_bin == Format024b(parsed.val + address)
                      replaced == Replace(code_line,
                                          <<"{">> \o natural_str \o <<"}">>,
                                          direccion_bin)
                  IN  IF CountBits(code_line) + Len(direccion_bin) # WORDS_SIZE_BITS
                      THEN [ok |-> FALSE, word |-> << >>]
                      ELSE IF ~IsBitString(replaced)
                      THEN [ok |-> FALSE, word |-> << >>]
                      ELSE [ok |-> TRUE, word |-> replaced]
    ELSE IF ~IsBitString(code_line)
    THEN [ok |-> FALSE, word |-> << >>]
    ELSE [ok |-> TRUE, word |-> code_line]

\* The address a line is loaded at
TargetAddrShifted(address, idx) == address + idx + 1
TargetAddr(address, idx) == address + idx

\* The loop over the lines from line idx on: each line is written as soon as
\* it is processed; an error leaves the loop at once
RECURSIVE LoadLines(_, _, _, _)
LoadLines(lines, address, idx, mem) ==
    IF idx >= Len(lines) THEN [mem |-> mem, error |-> -1]
    ELSE LET r == ProcessLine(lines[idx + 1], address)
         IN  IF ~r.ok THEN [mem |-> mem, error |-> idx]
             ELSE LoadLines(lines, address, idx + 1,
                            bus_action_write(mem, TargetAddr(address, idx), r.word))

\* The two range checks made before any line is processed
BaseInCodeRange(address) == 0 <= address /\ address <= CODE_RANGE_END
ImageFitsNoCheck(address, image_len) == TRUE
ImageFits(address, image_len) == address + image_len - 1 <= CODE_RANGE_END

(* Inputs *)

Op40 == Rep("0", 39) \o <<"1">>
LinePure == Rep("0", 63) \o <<"1">>
LineReloc5 == Op40 \o <<"{", "5", "}">>
LineReloc10 == Op40 \o <<"{", "1", "0", "}">>
LineBadPlaceholder == Op40 \o <<"{", "x", "}">>

Lines == {LinePure, LineReloc5, LineReloc10, LineBadPlaceholder}

RECURSIVE SeqsUpTo(_, _)
SeqsUpTo(S, n) ==
    IF n = 0 THEN {<< >>}
    ELSE LET shorter == SeqsUpTo(S, n - 1)
         IN  shorter \cup {Append(q, x) : q \in shorter, x \in S}

RECURSIVE JoinLines(_)
JoinLines(ls) ==
    IF ls = << >> THEN << >> ELSE ls[1] \o <<"\n">> \o JoinLines(Tail(ls))

TextWithBlankLine == LinePure \o <<"\n", "\n">> \o LinePure \o <<"\n">>

ImageTexts ==
    {JoinLines(ls) : ls \in SeqsUpTo(Lines, MaxImageLen) \ {<< >>}}
        \cup {TextWithBlankLine}

Bases == {-1, 0, CODE_RANGE_END}

\* Action.load_machine_code(machine_code_reloc, address):
\* Enlazador.set_machine_code, then Enlazador.link_load_machine_code
load_machine_code(machine_code_reloc, address) ==
    LET parsed == set_machine_code(machine_code_reloc)
    IN  /\ load_address' = address
        /\ IF ~parsed.ok
           THEN /\ load_result' = [status |-> "format_error", line |-> -1]
                /\ UNCHANGED <<Memory_array, MACHINE_CODE_RELOC>>
           ELSE /\ MACHINE_CODE_RELOC' = parsed.lines
                /\ IF ~BaseInCodeRange(address)
                      \/ ~ImageFits(address, Len(parsed.lines))
                   THEN /\ load_result' = [status |-> "range_error", line |-> -1]
                        /\ UNCHANGED Memory_array
                   ELSE LET r == LoadLines(parsed.lines, address, 0, Memory_array)
                        IN  /\ Memory_array' = r.mem
                            /\ load_result' =
                                 IF r.error = -1
                                 THEN [status |-> "ok", line |-> -1]
                                 ELSE [status |-> "line_error", line |-> r.error]

LoadMachineCode ==
    /\ load_count < MaxLoads
    /\ load_count' = load_count + 1
    /\ \E text \in ImageTexts, address \in Bases : load_machine_code(text, address)
    /\ UNCHANGED <<outputVars, inputVars, driverVars, toolVars>>

\* The state after the modules are imported and Memory.set_up has run
LinkInit ==
    /\ MACHINE_CODE_RELOC = << >>
    /\ load_address = 0
    /\ load_result = [status |-> "none", line |-> -1]
    /\ load_count = 0

OutputInit ==
    /\ write_callback = FALSE
    /\ next_is_number = FALSE
    /\ write_buffers = << >>
    /\ timers = << >>
    /\ callback_log = << >>
    /\ write_log = << >>

InputInit ==
    /\ input_queue = << >>
    /\ read_result = [kind |-> "none"]

\* The CPU and the driver before any run, with a given program in memory
DriverInitWith(program) ==
    /\ code = program
    /\ PC = 0
    /\ IR = "none"
    /\ CU_instruction = "none"
    /\ R4 = ZeroWord
    /\ PARA_INSTRUCTION = FALSE
    /\ EN_EJECUCION = FALSE
    /\ is_stepping = FALSE
    /\ driver_pc = "idle"
    /\ cpu_calls = << >>
    /\ cpu_error = "none"
    /\ stop_requested = FALSE

DriverInit == DriverInitWith(<<"PARA">>)

\* No source assembled yet
AsmInit ==
    /\ as_source = << >>
    /\ as_result = [status |-> "none"]

\* The compiler module as imported: no context, empty tables
CompInit ==
    /\ ctx = [live |-> FALSE, next_reg |-> 4, var_map |-> << >>, label_count |-> 0]
    /\ type_table = << >>
    /\ data_section = << >>
    /\ array_dims = << >>
    /\ cc_text = << >>
    /\ cc_body = << >>
    /\ cc_result = [status |-> "none", lines |-> << >>]
    /\ cc_count = 0

\* No step made, no input callback registered
HostInit ==
    /\ waiting_for_input = FALSE
    /\ input_callbacks = 0
    /\ step_result = [exc |-> "none", did_para |-> FALSE]
    /\ step_count = 0
    /\ cb_calls = 0
    /\ cb_executed = 0

AuxInit ==
    /\ reg_call = [op |-> "none", var |-> "", r |-> 0]
    /\ pi_text = << >>
    /\ pi_result = [out |-> << >>, indent_stack |-> <<0>>, pushed |-> 0, popped |-> 0]
    /\ pp_files = << >>
    /\ pp_result = [status |-> "none", out |-> << >>]
    /\ in_texts = << >>

ToolInit == AsmInit /\ CompInit /\ HostInit /\ AuxInit

InitLoader ==
    /\ Memory_array = << >>
    /\ LinkInit
    /\ OutputInit
    /\ InputInit
    /\ DriverInit
    /\ ToolInit

NextLoader == LoadMachineCode

SpecLoader == InitLoader /\ [][NextLoader]_vars

-----------------------------------------------------------------------------
(* Properties of the loader *)

InCodeRange(a) == 0 <= a /\ a <= CODE_RANGE_END

LoadStep == load_count' # load_count

\* The word an image line stands for at a base: the line itself, or the line
\* with its {k} placeholder replaced by the 24-bit binary form of k + base
ImageWord(line, base) ==
    IF Find(line, "{") = -1 THEN line
    ELSE LET open  == Find(line, "{")
             close == Find(line, "}")
         IN  SubSeq(line, 1, open)
                 \o Format024b(DigitsValue(Slice(line, open + 1, close)) + base)
                 \o SubSeq(line, close + 2, Len(line))

\* A line of binary digits with one {k} placeholder, k a decimal natural
\* number, whose digits plus the 24-bit field make a 64-bit word
WellFormedReloc(line) ==
    /\ Count(line, "{") = 1
    /\ Count(line, "}") = 1
    /\ Find(line, "{") < Find(line, "}")
    /\ LET inner == Slice(line, Find(line, "{") + 1, Find(line, "}"))
           outer == SubSeq(line, 1, Find(line, "{"))
                        \o SubSeq(line, Find(line, "}") + 2, Len(line))
       IN  /\ inner # << >>
           /\ \A i \in DOMAIN inner : inner[i] \in Digits
           /\ IsBitString(outer)
           /\ Len(outer) + ADDRESS_BITS = WORDS_SIZE_BITS

\* C7: a load changes memory only when base and base + length - 1 both lie in
\* the CODE range, and every address the loader has written lies in the CODE
\* range.
C7_LoaderWritesOnlyCode ==
    [][/\ \A a \in DOMAIN Memory_array' : InCodeRange(a)
       /\ Memory_array' # Memory_array =>
            /\ InCodeRange(load_address')
            /\ InCodeRange(load_address' + Len(MACHINE_CODE_RELOC') - 1)]_vars

\* C7 witness: a two-line image refused at the last CODE address, after a load
\* that wrote that address
C7_Witness ==
    /\ load_result.status = "range_error"
    /\ load_address = CODE_RANGE_END
    /\ Len(MACHINE_CODE_RELOC) = 2
    /\ CODE_RANGE_END \in DOMAIN Memory_array

\* C8: after a successful load of an n-line image at base, memory[base + i]
\* is the i-th image word for every i < n, and every other cell keeps the
\* value it had before the load.
C8_LoadWritesImageOnly ==
    [][(LoadStep /\ load_result'.status = "ok") =>
         LET base  == load_address'
             lines == MACHINE_CODE_RELOC'
             n     == Len(lines)
         IN  /\ \A i \in 0..(n - 1) :
                   MemGet(Memory_array', base + i) = ImageWord(lines[i + 1], base)
             /\ \A a \in (DOMAIN Memory_array) \cup (DOMAIN Memory_array') :
                   (a < base \/ a > base + n - 1) =>
                       MemGet(Memory_array', a) = MemGet(Memory_array, a)]_vars

\* C8 witness: a successful two-line load with a relocated line, next to a
\* cell written by an earlier load
C8_Witness ==
    /\ load_result.status = "ok"
    /\ Len(MACHINE_CODE_RELOC) = 2
    /\ \E i \in DOMAIN MACHINE_CODE_RELOC : MACHINE_CODE_RELOC[i] = LineReloc5
    /\ \E a \in DOMAIN Memory_array :
          a < load_address \/ a > load_address + 1

\* C9: a well-formed line (binary digits, one {k} placeholder, 64 bits after
\* substitution) is never the line a load is rejected at.
C9_WellFormedRelocAccepted ==
    load_result.status = "line_error" =>
        ~WellFormedReloc(MACHINE_CODE_RELOC[load_result.line + 1])

\* C10: a load that raises while processing a line leaves memory exactly as
\* it was before the call.
C10_FailedLoadWritesNothing ==
    [][(LoadStep /\ load_result'.status = "line_error") =>
         Memory_array' = Memory_array]_vars

-----------------------------------------------------------------------------
(* Words as bytes and as text (controller/terminal.py).  A word is a string
   of 64 bits, most significant first; a text is a sequence of character
   codes. *)

BitVal(c) == IF c = "1" THEN 1 ELSE 0

RECURSIVE BitsValue(_)
BitsValue(bits) ==
    IF bits = << >> THEN 0
    ELSE 2 * BitsValue(SubSeq(bits, 1, Len(bits) - 1)) + BitVal(bits[Len(bits)])

\* int(v).to_bytes(8, 'little'): byte j (0-based) is bits 8j..8j+7 of the value
ToBytesLittle(word) ==
    [j \in 1..8 |-> BitsValue(SubSeq(word, 64 - 8 * j + 1, 64 - 8 * j + 8))]

\* The 8 bits of a byte
ByteBits(b) ==
    LET bin == ToBin(b) IN Rep("0", 8 - Len(bin)) \o bin

\* int.from_bytes(b, 'little') of 8 bytes, as a word
RECURSIVE FromBytesLittle(_)
FromBytesLittle(bs) ==
    IF bs = << >> THEN << >>
    ELSE FromBytesLittle(Tail(bs)) \o ByteBits(bs[1])

\* bytes.rstrip(b"\x00")
RECURSIVE RStripZeros(_)
RStripZeros(bs) ==
    IF bs # << >> /\ bs[Len(bs)] = 0 THEN RStripZeros(SubSeq(bs, 1, Len(bs) - 1))
    ELSE bs

\* bits without their leading zeros
TrimLeadingZeros(bits) ==
    IF \A i \in DOMAIN bits : bits[i] = "0" THEN << >>
    ELSE LET first == CHOOSE i \in DOMAIN bits :
                         bits[i] = "1" /\ \A j \in 1..(i - 1) : bits[j] = "0"
         IN  SubSeq(bits, first, Len(bits))

\* One long division by ten of a binary number: quotient bits and remainder
RECURSIVE DivTen(_, _, _, _)
DivTen(bits, i, q, r) ==
    IF i > Len(bits) THEN [q |-> q, r |-> r]
    ELSE LET v == 2 * r + BitVal(bits[i])
         IN  DivTen(bits, i + 1, Append(q, IF v >= 10 THEN "1" ELSE "0"), v % 10)

RECURSIVE DecimalDigits(_)
DecimalDigits(bits) ==
    LET t == TrimLeadingZeros(bits)
    IN  IF t = << >> THEN << >>
        ELSE LET d == DivTen(t, 1, << >>, 0)
             IN  DecimalDigits(d.q) \o << 48 + d.r >>

\* str(int(v)) of an unsigned value
StrOfWord(word) ==
    IF TrimLeadingZeros(word) = << >> THEN << 48 >> ELSE DecimalDigits(word)

\* The word is the numeric marker 0xFF 0x4E ... 0x02
IsNumericMarker(word) ==
    LET b == ToBytesLittle(word)
    IN  b[1] = 255 /\ b[2] = 78 /\ b[8] = 2

IsPrintableByte(ch) == ch \in {9, 10, 13} \/ (32 <= ch /\ ch <= 126)

\* The text write_notify shows for a word that is not the numeric marker
DecodeWord(word, is_number) ==
    LET b         == ToBytesLittle(word)
        bstripped == RStripZeros(b)
    IN  IF is_number THEN StrOfWord(word)
        ELSE IF b[1] = 10 /\ b[8] = 1 /\ \A j \in 2..7 : b[j] = 0 THEN << 10 >>
        ELSE IF bstripped = << >> THEN << >>
        ELSE IF Len(bstripped) > 1
        THEN IF \A j \in DOMAIN bstripped : IsPrintableByte(bstripped[j])
             THEN bstripped
             ELSE StrOfWord(word)
        ELSE IF 32 <= bstripped[1] /\ bstripped[1] <= 126
        THEN << bstripped[1] >>
        ELSE StrOfWord(word)

-----------------------------------------------------------------------------
(* Output side of the bridge: Memory.write, write_notify and the flush timers *)

InESRange(direction) == E_S_RANGE_START <= direction /\ direction <= E_S_RANGE_END

\* _write_buffers.get(address), then a new entry or acc += text; the entry's
\* timer becomes the timer started by this write
AccumulateEntry(buffers, address, text, id, timer) ==
    IF address \in DOMAIN buffers
    THEN [buffers EXCEPT ![address] =
             [acc |-> @.acc \o text, ids |-> Append(@.ids, id), timer |-> timer]]
    ELSE [a \in (DOMAIN buffers) \cup {address} |->
             IF a = address
             THEN [acc |-> text, ids |-> << id >>, timer |-> timer]
             ELSE buffers[a]]

\* tprev.cancel(): stops the previous timer of the entry unless it has fired
CancelPrevious(ts, buffers, address) ==
    IF address \in DOMAIN buffers /\ ts[buffers[address].timer].state = "waiting"
    THEN [ts EXCEPT ![buffers[address].timer].state = "cancelled"]
    ELSE ts

NoEntry == [acc |-> << >>, ids |-> << >>]

\* write_notify(address, uint64_value); the part under _buf_lock is one step
write_notify(address, uint64_value) ==
    IF IsNumericMarker(uint64_value)
    THEN /\ next_is_number' = TRUE
         /\ UNCHANGED <<write_buffers, timers>>
    ELSE LET text  == DecodeWord(uint64_value, next_is_number)
             id    == Len(write_log) + 1
             timer == Len(timers) + 1
         IN  /\ next_is_number' = FALSE
             /\ write_buffers' = AccumulateEntry(write_buffers, address, text, id, timer)
             /\ timers' = Append(CancelPrevious(timers, write_buffers, address),
                                 [address |-> address, state |-> "waiting", e |-> NoEntry])

\* Memory.write(direction, value)
Memory_write(direction, value) ==
    /\ Memory_array' = Memory_store(Memory_array, direction, value)
    /\ IF InESRange(direction)
       THEN write_notify(direction, value)
       ELSE UNCHANGED <<next_is_number, write_buffers, timers>>
    /\ write_log' = Append(write_log,
          [address    |-> direction,
           notified   |-> InESRange(direction),
           marker     |-> IsNumericMarker(value),
           text       |-> IF IsNumericMarker(value) THEN << >>
                          ELSE DecodeWord(value, next_is_number),
           registered |-> write_callback])
    /\ UNCHANGED <<write_callback, callback_log>>

\* The timer's delay has elapsed and the timer was not cancelled: _flush starts
TimerFire(t) ==
    /\ timers[t].state = "waiting"
    /\ timers' = [timers EXCEPT ![t].state = "fired"]
    /\ UNCHANGED <<Memory_array, write_callback, next_is_number, write_buffers,
                   callback_log, write_log>>
    /\ UNCHANGED <<linkVars, inputVars, driverVars, toolVars>>

\* _flush under _buf_lock: e = _write_buffers.pop(a, None); return if None
KeepEntry(buffers, a) == buffers
RemoveEntry(buffers, a) == [x \in (DOMAIN buffers) \ {a} |-> buffers[x]]

FlushPop(t) ==
    /\ timers[t].state = "fired"
    /\ LET a == timers[t].address
       IN  IF a \in DOMAIN write_buffers
           THEN /\ timers' = [timers EXCEPT ![t].state = "popped",
                                            ![t].e = [acc |-> write_buffers[a].acc,
                                                      ids |-> write_buffers[a].ids]]
                /\ write_buffers' = RemoveEntry(write_buffers, a)
           ELSE /\ timers' = [timers EXCEPT ![t].state = "done"]
                /\ UNCHANGED write_buffers
    /\ UNCHANGED <<Memory_array, write_callback, next_is_number, callback_log, write_log>>
    /\ UNCHANGED <<linkVars, inputVars, driverVars, toolVars>>

\* _flush after the lock is released: _write_callback(a, acc_text) if one is set
FlushCallback(t) ==
    /\ timers[t].state = "popped"
    /\ timers' = [timers EXCEPT ![t].state = "done"]
    /\ callback_log' =
         IF write_callback
         THEN Append(callback_log, [address |-> timers[t].address,
                                    text    |-> timers[t].e.acc,
                                    ids     |-> timers[t].e.ids])
         ELSE callback_log
    /\ UNCHANGED <<Memory_array, write_callback, next_is_number, write_buffers, write_log>>
    /\ UNCHANGED <<linkVars, inputVars, driverVars, toolVars>>

\* register_write_callback(cb)
register_write_callback ==
    /\ ~write_callback
    /\ write_callback' = TRUE
    /\ UNCHANGED <<Memory_array, next_is_number, write_buffers, timers,
                   callback_log, write_log>>
    /\ UNCHANGED <<linkVars, inputVars, driverVars, toolVars>>

(* Inputs *)

WordA == FromBytesLittle(<<65, 0, 0, 0, 0, 0, 0, 0>>)
WordB == FromBytesLittle(<<66, 0, 0, 0, 0, 0, 0, 0>>)
WordMarker == FromBytesLittle(<<255, 78, 0, 0, 0, 0, 0, 2>>)

OutWords == {WordA, WordB, WordMarker}

WriteAddrs == {E_S_RANGE_START, E_S_RANGE_END, E_S_RANGE_END + 1}

ProgramWrite ==
    /\ Len(write_log) < MaxWrites
    /\ \E direction \in WriteAddrs, value \in OutWords : Memory_write(direction, value)
    /\ UNCHANGED <<linkVars, inputVars, driverVars, toolVars>>

TimerFires == \E t \in DOMAIN timers : TimerFire(t)

FlushPops == \E t \in DOMAIN timers : FlushPop(t)

FlushCallbacks == \E t \in DOMAIN timers : FlushCallback(t)

InitOutput ==
    /\ Memory_array = << >>
    /\ LinkInit
    /\ OutputInit
    /\ InputInit
    /\ DriverInit
    /\ ToolInit

NextOutput ==
    \/ ProgramWrite
    \/ register_write_callback
    \/ TimerFires
    \/ FlushPops
    \/ FlushCallbacks

SpecOutput == InitOutput /\ [][NextOutput]_vars

-----------------------------------------------------------------------------
(* Properties of the output side *)

\* How many times write i appears in the payloads passed to the callback
Occurrences(i) ==
    Cardinality({kj \in (DOMAIN callback_log) \X (1..MaxWrites + 1) :
                    /\ kj[2] \in DOMAIN callback_log[kj[1]].ids
                    /\ callback_log[kj[1]].ids[kj[2]] = i})

\* The texts of the writes ids, concatenated
RECURSIVE TextOfWrites(_)
TextOfWrites(ids) ==
    IF ids = << >> THEN << >>
    ELSE write_log[ids[1]].text \o TextOfWrites(Tail(ids))

\* No buffer is pending and every timer has run to its end or was cancelled
Quiescent ==
    /\ write_buffers = << >>
    /\ \A t \in DOMAIN timers : timers[t].state \in {"done", "cancelled"}

\* The payloads the callback received for address a, in invocation order
RECURSIVE DeliveredText(_, _)
DeliveredText(log, a) ==
    IF log = << >> THEN << >>
    ELSE (IF log[1].address = a THEN log[1].text ELSE << >>)
             \o DeliveredText(Tail(log), a)

\* The decoded texts of the writes to I/O address a, in program order
RECURSIVE WrittenText(_, _)
WrittenText(log, a) ==
    IF log = << >> THEN << >>
    ELSE (IF log[1].address = a /\ log[1].notified THEN log[1].text ELSE << >>)
             \o WrittenText(Tail(log), a)

IsPrefix(p, q) == Len(p) <= Len(q) /\ SubSeq(q, 1, Len(p)) = p

\* C3 as stated: once the timers have run, every write to an I/O address made
\* with a callback registered has been passed to the callback exactly once.
C3_EveryWriteNotifiedOnce ==
    /\ \A i \in DOMAIN write_log : Occurrences(i) <= 1
    /\ Quiescent =>
         \A i \in DOMAIN write_log :
            (write_log[i].notified /\ write_log[i].registered) => Occurrences(i) = 1

\* C3 amended: no write is ever passed to the callback twice, every payload is
\* the concatenation of the texts of the writes to its address that it covers,
\* and once the timers have run every write to an I/O address of a word other
\* than the numeric marker, made with a callback registered, has been passed
\* to the callback exactly once.
C3_TextWritesNotifiedOnce ==
    /\ \A i \in DOMAIN write_log : Occurrences(i) <= 1
    /\ \A k \in DOMAIN callback_log :
          /\ callback_log[k].text = TextOfWrites(callback_log[k].ids)
          /\ \A j \in DOMAIN callback_log[k].ids :
                /\ write_log[callback_log[k].ids[j]].address = callback_log[k].address
                /\ write_log[callback_log[k].ids[j]].notified
                /\ ~write_log[callback_log[k].ids[j]].marker
    /\ Quiescent =>
         \A i \in DOMAIN write_log :
            (write_log[i].notified /\ write_log[i].registered /\ ~write_log[i].marker)
                => Occurrences(i) = 1

\* C3 witness: two writes to one address delivered in one payload by a timer
\* that had fired before the second write (so the second write could not
\* cancel it), the second timer finding nothing to flush
C3_Witness ==
    /\ Quiescent
    /\ Len(timers) = 2
    /\ \A t \in DOMAIN timers : timers[t].state = "done"
    /\ \E k \in DOMAIN callback_log : Len(callback_log[k].ids) = 2

\* C4: for each I/O address, the payloads passed to the callback, concatenated
\* in invocation order, are a prefix of the texts written to that address,
\* concatenated in program order (all writes made with a callback registered).
C4_PayloadsArePrefixOfWrites ==
    (\A i \in DOMAIN write_log : write_log[i].registered) =>
        \A a \in WriteAddrs :
            IsPrefix(DeliveredText(callback_log, a), WrittenText(write_log, a))

-----------------------------------------------------------------------------
(* Input side of the bridge: push_input and Memory.read.  A Python int is a
   sign and a magnitude in binary without leading zeros. *)

Max(a, b) == IF a >= b THEN a ELSE b

PadLeft(bits, n) == Rep("0", n - Len(bits)) \o bits

\* a + b on magnitudes: the carry into a position comes from the nearest less
\* significant position where both bits are set, every position between
\* propagating it
AddBits(a, b) ==
    LET n  == Max(Len(a), Len(b)) + 1
        pa == PadLeft(a, n)
        pb == PadLeft(b, n)
        carry(i) == \E j \in (i + 1)..n :
                       /\ pa[j] = "1" /\ pb[j] = "1"
                       /\ \A k \in (i + 1)..(j - 1) : pa[k] # pb[k]
    IN  TrimLeadingZeros([i \in 1..n |->
            IF (pa[i] # pb[i]) # carry(i) THEN "1" ELSE "0"])

\* The magnitude of a string of decimal digit codes (the prefix is evaluated
\* first)
RECURSIVE DecimalToBits(_)
DecimalToBits(ds) ==
    IF ds = << >> THEN << >>
    ELSE LET hi == DecimalToBits(SubSeq(ds, 1, Len(ds) - 1))
         IN  IF Len(hi) < 0 THEN << >>
             ELSE AddBits(AddBits(hi \o <<"0", "0", "0">>, hi \o <<"0">>),
                          TrimLeadingZeros(ToBin(ds[Len(ds)] - 48)))

IsSpaceCode(c) == c \in {9, 10, 11, 12, 13, 32}

RECURSIVE FirstNonSpaceCode(_, _)
FirstNonSpaceCode(s, i) ==
    IF i > Len(s) THEN i
    ELSE IF IsSpaceCode(s[i]) THEN FirstNonSpaceCode(s, i + 1) ELSE i

RECURSIVE LastNonSpaceCode(_, _)
LastNonSpaceCode(s, i) ==
    IF i < 1 THEN i
    ELSE IF IsSpaceCode(s[i]) THEN LastNonSpaceCode(s, i - 1) ELSE i

\* s.strip() on a text of character codes
StripText(s) == SubSeq(s, FirstNonSpaceCode(s, 1), LastNonSpaceCode(s, Len(s)))

\* int(s_stripped, 10): an optional sign and decimal digits, else ValueError
ParseDecimal(s) ==
    LET signed == s # << >> /\ s[1] \in {43, 45}
        body   == IF signed THEN Tail(s) ELSE s
    IN  IF body # << >> /\ \A i \in DOMAIN body : 48 <= body[i] /\ body[i] <= 57
        THEN [ok |-> TRUE,
              val |-> [neg |-> signed /\ s[1] = 45 /\ DecimalToBits(body) # << >>,
                       mag |-> DecimalToBits(body)]]
        ELSE [ok |-> FALSE, val |-> [neg |-> FALSE, mag |-> << >>]]

\* s.encode('utf-8') for characters below U+0800
RECURSIVE EncodeUtf8(_)
EncodeUtf8(s) ==
    IF s = << >> THEN << >>
    ELSE (IF s[1] < 128 THEN << s[1] >>
          ELSE << 192 + (s[1] \div 64), 128 + (s[1] % 64) >>)
             \o EncodeUtf8(Tail(s))

\* encode_str_to_uint64(s)
encode_str_to_uint64(s) ==
    LET s_stripped == StripText(s)
        parsed     == ParseDecimal(s_stripped)
    IN  IF s_stripped # << >> /\ parsed.ok THEN parsed.val
        ELSE LET b  == EncodeUtf8(s)
                 b8 == SubSeq(b, 1, IF Len(b) < 8 THEN Len(b) ELSE 8)
             IN  [neg |-> FALSE,
                  mag |-> TrimLeadingZeros(
                              FromBytesLittle(b8 \o [i \in 1..(8 - Len(b8)) |-> 0]))]

\* has_input()
has_input(queue) == Len(queue) > 0

\* pop_input_uint64() on a non-empty queue
pop_input_uint64(queue) == Tail(queue)

\* np.uint64(v) of a Python int: OverflowError (ok = FALSE) when it does not
\* fit; a negative int wraps or raises, depending on the NumPy version (wraps)
np_uint64(v, wraps) ==
    IF Len(v.mag) > WORDS_SIZE_BITS THEN [ok |-> FALSE, word |-> ZeroWord]
    ELSE IF ~v.neg THEN [ok |-> TRUE, word |-> PadLeft(v.mag, WORDS_SIZE_BITS)]
    ELSE IF ~wraps THEN [ok |-> FALSE, word |-> ZeroWord]
    ELSE LET inverted == [i \in 1..WORDS_SIZE_BITS |->
                             IF PadLeft(v.mag, WORDS_SIZE_BITS)[i] = "1" THEN "0" ELSE "1"]
             sum      == PadLeft(AddBits(inverted, <<"1">>), WORDS_SIZE_BITS + 1)
         IN  [ok |-> TRUE, word |-> SubSeq(sum, 2, WORDS_SIZE_BITS + 1)]

\* Memory.read(direction): the value returned and the queue afterwards
Memory_read(mem, queue, direction, wraps) ==
    IF InESRange(direction) /\ has_input(queue)
    THEN LET v == np_uint64(queue[1], wraps)
         IN  [kind  |-> "value",
              value |-> IF v.ok THEN v.word ELSE MemGet(mem, direction),
              queue |-> pop_input_uint64(queue)]
    ELSE [kind |-> "value", value |-> MemGet(mem, direction), queue |-> queue]

\* push_input(text): the value is queued; the input callback the driver
\* registers (Action._on_input_available) returns at once, _waiting_for_input
\* being False
push_input(text) ==
    /\ input_queue' = Append(input_queue, encode_str_to_uint64(text))
    /\ UNCHANGED read_result

(* Inputs *)

Text42 == <<52, 50>>
TextHi == <<104, 105>>
TextMinus1 == <<45, 49>>

InputTexts == {Text42, TextHi, TextMinus1}

ReadAddrs == {E_S_RANGE_START, E_S_RANGE_END + 1}

NegativeWraps == {TRUE, FALSE}

PushInput ==
    /\ Len(input_queue) < MaxInputs
    /\ \E text \in InputTexts : push_input(text)
    /\ UNCHANGED <<Memory_array, linkVars, outputVars, driverVars, toolVars>>

\* A call of Memory.read by any reader
MemoryRead ==
    /\ \E direction \in ReadAddrs, wraps \in NegativeWraps :
          LET r == Memory_read(Memory_array, input_queue, direction, wraps)
          IN  /\ input_queue' = r.queue
              /\ read_result' = [kind            |-> r.kind,
                                 value           |-> r.value,
                                 direction       |-> direction,
                                 queue_was_empty |-> ~has_input(input_queue)]
    /\ UNCHANGED <<Memory_array, linkVars, outputVars, driverVars, toolVars>>

\* The I/O cell may hold a word the program wrote there earlier
InitInput ==
    /\ Memory_array \in {<< >>, [a \in {E_S_RANGE_START} |-> WordA]}
    /\ LinkInit
    /\ OutputInit
    /\ InputInit
    /\ DriverInit
    /\ ToolInit

NextInput ==
    \/ PushInput
    \/ MemoryRead

SpecInput == InitInput /\ [][NextInput]_vars

\* C2: a read at an I/O address with an empty input queue raises InputNeeded
\* (it returns neither the stored cell nor a default value).
C2_EmptyQueueReadRaises ==
    (/\ read_result.kind # "none"
     /\ InESRange(read_result.direction)
     /\ read_result.queue_was_empty)
        => read_result.kind = "InputNeeded"

-----------------------------------------------------------------------------
(* The CPU (its module is not part of the sources: modelled from the
   specification) and the execution driver Action.execute_progam.  A program
   is a sequence of instruction kinds:
     COPIA     a register instruction, completes synchronously
     CARGA_IO  a load from the I/O input address: takes the head of the input
               queue, or raises InputNeeded when the queue is empty
     DIVI0     a division by zero: execute raises ArithmeticError
     PARA      the stop instruction: sets PARA_INSTRUCTION *)

MaxProgramLen == 2

BodyKinds == {"COPIA", "CARGA_IO", "DIVI0"}

Programs == {Append(body, "PARA") : body \in SeqsUpTo(BodyKinds, MaxProgramLen)}

StartAddresses == {0, 1}

Last(s) == s[Len(s)]

\* CPU.preparate(address)
CPU_preparate(address) == address

\* CPU.fetch(): IR <- M[PC]; PC <- PC + 1
CPU_fetch(program, pc) == [IR |-> program[pc + 1], PC |-> pc + 1]

\* CPU.decode()
CPU_decode(ir) == ir

\* CPU.execute(): the exception raised ("none" if it completes) and the state after
CPU_execute(instruction, queue, r4, para, wraps) ==
    CASE instruction = "CARGA_IO" ->
            IF has_input(queue)
            THEN LET r == Memory_read(Memory_array, queue, E_S_RANGE_START, wraps)
                 IN  [exc |-> "none", R4 |-> r.value, queue |-> r.queue, PARA |-> para]
            ELSE [exc |-> "InputNeeded", R4 |-> r4, queue |-> queue, PARA |-> para]
      [] instruction = "DIVI0" ->
            [exc |-> "ArithmeticError", R4 |-> r4, queue |-> queue, PARA |-> para]
      [] instruction = "PARA" ->
            [exc |-> "none", R4 |-> r4, queue |-> queue, PARA |-> TRUE]
      [] OTHER ->
            [exc |-> "none", R4 |-> r4, queue |-> queue, PARA |-> para]

\* CPU.refresh(): "Ejecucion e instruccion de parada en Falso"
CPU_refresh ==
    /\ EN_EJECUCION' = FALSE
    /\ PARA_INSTRUCTION' = FALSE

Loops == {"loop1", "loop2"}
Decodes == {"decode1", "decode2"}
Executes == {"exec1", "exec2"}
Waits == {"wait1", "wait2"}
ReExecutes == {"reexec1", "reexec2"}
Finished == {"returned", "raised"}

\* the first loop (lines 284-287) or the loop after a resume (lines 300-311)
InFirstLoop == driver_pc \in {"loop1", "decode1", "exec1", "wait1", "reexec1"}

\* while not _term.has_input(): time.sleep(0.05)
wait_skipped(queue) == TRUE
wait_over(queue) == has_input(queue)

\* Where execute_progam goes when CPU.execute raises exc in the loop: in the
\* first loop InputNeeded is waited for and any other exception falls through
\* the handler to CPU.refresh(); after a resume InputNeeded is waited for and
\* any other exception is re-raised
after_execute(first, exc) ==
    CASE exc = "none"        -> IF first THEN "loop1" ELSE "loop2"
      [] exc = "InputNeeded" -> IF first THEN "wait1" ELSE "wait2"
      [] OTHER               -> IF first THEN "refresh" ELSE "raised"

\* Where it goes after the CPU.execute() that follows a wait (lines 298, 310):
\* an exception raised there leaves the handler
after_reexecute(exc) == IF exc = "none" THEN "loop2" ELSE "raised"

\* execute_progam(address) up to the loop: CPU.preparate, EN_EJECUCION = True
ExecuteProgamStart ==
    /\ driver_pc = "idle"
    /\ \E address \in StartAddresses :
          /\ address < Len(code)
          /\ PC' = CPU_preparate(address)
    /\ EN_EJECUCION' = TRUE
    /\ driver_pc' = "loop1"
    /\ UNCHANGED <<code, IR, CU_instruction, R4, PARA_INSTRUCTION, is_stepping,
                   cpu_calls, cpu_error, stop_requested>>
    /\ UNCHANGED <<loaderVars, outputVars, inputVars, toolVars>>

\* while not CPU.PARA_INSTRUCTION: CPU.fetch()
LoopFetch ==
    /\ driver_pc \in Loops
    /\ IF PARA_INSTRUCTION
       THEN /\ driver_pc' = "refresh"
            /\ UNCHANGED <<PC, IR, cpu_calls>>
       ELSE /\ PC < Len(code)
            /\ IR' = CPU_fetch(code, PC).IR
            /\ PC' = CPU_fetch(code, PC).PC
            /\ cpu_calls' = Append(cpu_calls, "fetch")
            /\ driver_pc' = IF InFirstLoop THEN "decode1" ELSE "decode2"
    /\ UNCHANGED <<code, CU_instruction, R4, PARA_INSTRUCTION, EN_EJECUCION,
                   is_stepping, cpu_error, stop_requested>>
    /\ UNCHANGED <<loaderVars, outputVars, inputVars, toolVars>>

\* CPU.decode()
Decode ==
    /\ driver_pc \in Decodes
    /\ CU_instruction' = CPU_decode(IR)
    /\ cpu_calls' = Append(cpu_calls, "decode")
    /\ driver_pc' = IF InFirstLoop THEN "exec1" ELSE "exec2"
    /\ UNCHANGED <<code, PC, IR, R4, PARA_INSTRUCTION, EN_EJECUCION, is_stepping,
                   cpu_error, stop_requested>>
    /\ UNCHANGED <<loaderVars, outputVars, inputVars, toolVars>>

\* The effect of one CPU.execute() call, in the loop or after a wait
ExecuteCall(after_wait) ==
    \E wraps \in NegativeWraps :
       LET r == CPU_execute(CU_instruction, input_queue, R4, PARA_INSTRUCTION, wraps)
       IN  /\ R4' = r.R4
           /\ input_queue' = r.queue
           /\ PARA_INSTRUCTION' = r.PARA
           /\ cpu_calls' = Append(cpu_calls, "execute")
           /\ cpu_error' = IF r.exc \in {"none", "InputNeeded"} THEN cpu_error ELSE r.exc
           /\ driver_pc' = IF after_wait THEN after_reexecute(r.exc)
                            ELSE after_execute(InFirstLoop, r.exc)

\* CPU.execute() in the loop, and the exception handlers around it
Execute ==
    /\ driver_pc \in Executes
    /\ ExecuteCall(FALSE)
    /\ UNCHANGED <<code, PC, IR, CU_instruction, EN_EJECUCION, is_stepping,
                   stop_requested>>
    /\ UNCHANGED <<loaderVars, outputVars, read_result, toolVars>>

\* The wait loop of the handler: left once the terminal has input
WaitInput ==
    /\ driver_pc \in Waits
    /\ wait_over(input_queue)
    /\ driver_pc' = IF InFirstLoop THEN "reexec1" ELSE "reexec2"
    /\ UNCHANGED <<code, cpuVars, is_stepping, cpu_calls, cpu_error, stop_requested>>
    /\ UNCHANGED <<loaderVars, outputVars, inputVars, toolVars>>

\* CPU.execute() after the wait: "Now attempt to complete the instruction"
ReExecute ==
    /\ driver_pc \in ReExecutes
    /\ ExecuteCall(TRUE)
    /\ UNCHANGED <<code, PC, IR, CU_instruction, EN_EJECUCION, is_stepping,
                   stop_requested>>
    /\ UNCHANGED <<loaderVars, outputVars, read_result, toolVars>>

\* CPU.refresh() at the end of execute_progam, and the return
Refresh ==
    /\ driver_pc = "refresh"
    /\ CPU_refresh
    /\ driver_pc' = "returned"
    /\ UNCHANGED <<code, PC, IR, CU_instruction, R4, is_stepping, cpu_calls,
                   cpu_error, stop_requested>>
    /\ UNCHANGED <<loaderVars, outputVars, inputVars, toolVars>>

\* The stop is invoked while execute_progam is looping
Looping == driver_pc \notin ({"idle", "refresh"} \cup Finished)

\* Action.stop_emulation() from the host thread (nothing saved)
StopEmulation ==
    /\ CPU_refresh
    /\ stop_requested' = (stop_requested \/ Looping)
    /\ UNCHANGED <<code, PC, IR, CU_instruction, R4, is_stepping, driver_pc,
                   cpu_calls, cpu_error>>
    /\ UNCHANGED <<loaderVars, outputVars, inputVars, toolVars>>

\* Action.stop_stepping() from the host thread
StopStepping ==
    /\ is_stepping' = FALSE
    /\ CPU_refresh
    /\ stop_requested' = (stop_requested \/ Looping)
    /\ UNCHANGED <<code, PC, IR, CU_instruction, R4, driver_pc, cpu_calls, cpu_error>>
    /\ UNCHANGED <<loaderVars, outputVars, inputVars, toolVars>>

InitDriver ==
    /\ Memory_array = << >>
    /\ LinkInit
    /\ OutputInit
    /\ InputInit
    /\ \E program \in Programs : DriverInitWith(program)
    /\ ToolInit

NextDriver ==
    \/ ExecuteProgamStart
    \/ LoopFetch
    \/ Decode
    \/ Execute
    \/ WaitInput
    \/ ReExecute
    \/ Refresh
    \/ PushInput
    \/ StopEmulation
    \/ StopStepping

\* The thread running execute_progam is scheduled; the host need not act
DriverFairness ==
    /\ WF_vars(ExecuteProgamStart)
    /\ WF_vars(LoopFetch)
    /\ WF_vars(Decode)
    /\ WF_vars(Execute)
    /\ WF_vars(WaitInput)
    /\ WF_vars(ReExecute)
    /\ WF_vars(Refresh)

SpecDriver == InitDriver /\ [][NextDriver]_vars /\ DriverFairness

Suspended == driver_pc \in Waits \cup ReExecutes

C5_StopStartsNoInstruction ==
    [][stop_requested => (cpu_calls' = cpu_calls \/ Last(cpu_calls') # "fetch")]_vars

\* C6: when the CPU has raised an exception other than InputNeeded, the run
\* ends with the error propagated to the caller and the running flag cleared.
C6_ErrorStopsAndPropagates ==
    (cpu_error # "none" /\ driver_pc \in Finished)
        => (driver_pc = "raised" /\ ~EN_EJECUCION)

-----------------------------------------------------------------------------
(* The assembler (model/ensamblador/assembler_from_as.py).  A source is a
   sequence of cleaned lines; a line is a label declaration, a .data
   directive with its values, or an instruction with its operand tokens, as
   re.split('[,\s]+') leaves them:
     Rn          [k = "reg"]     M[n]            [k = "mem"]
     M[name+k]   [k = "memlbl"]  (M[name] is k = 0)
     name        [k = "lbl"]     number          [k = "num"]            *)

MaxAsmLines == 3

Reg(n) == [k |-> "reg", n |-> n, lbl |-> ""]
Mem(n) == [k |-> "mem", n |-> n, lbl |-> ""]
MemLbl(l, off) == [k |-> "memlbl", n |-> off, lbl |-> l]
Lbl(l) == [k |-> "lbl", n |-> 0, lbl |-> l]
Num(n) == [k |-> "num", n |-> n, lbl |-> ""]

LabelLine(l) == [kind |-> "label", name |-> l, vals |-> << >>, mn |-> "", args |-> << >>]
DataLine(vs) == [kind |-> "data", name |-> "", vals |-> vs, mn |-> "", args |-> << >>]
InstrLine(m, as) == [kind |-> "instr", name |-> "", vals |-> << >>, mn |-> m, args |-> as]

\* MNEMONIC_TABLE (opcodes.json and ISA.json are not part of the sources): the
\* format length of a mnemonic and an opcode of that many bits
OpcodeLength(mnemonic) ==
    CASE mnemonic = "PARA"   -> 64
      [] mnemonic = "SUMA"   -> 54
      [] mnemonic = "INCRE"  -> 59
      [] mnemonic = "CARGA"  -> 35
      [] mnemonic = "GUARD"  -> 35
      [] mnemonic = "ICARGA" -> 27
      [] mnemonic = "SALTA"  -> 40
      [] OTHER               -> 0

OpcodeIndex(mnemonic) ==
    CASE mnemonic = "PARA"   -> 1
      [] mnemonic = "SUMA"   -> 2
      [] mnemonic = "INCRE"  -> 3
      [] mnemonic = "CARGA"  -> 4
      [] mnemonic = "GUARD"  -> 5
      [] mnemonic = "ICARGA" -> 6
      [] mnemonic = "SALTA"  -> 7
      [] OTHER               -> 0

MNEMONIC_TABLE(mnemonic) ==
    [length |-> OpcodeLength(mnemonic),
     opcode |-> PadLeft(ToBin(OpcodeIndex(mnemonic)), OpcodeLength(mnemonic))]

InTable(mnemonic) == OpcodeLength(mnemonic) # 0

\* the low n bits of a magnitude
LowBits(b, n) ==
    IF Len(b) >= n THEN SubSeq(b, Len(b) - n + 1, Len(b)) ELSE PadLeft(b, n)

Abs(v) == IF v < 0 THEN 0 - v ELSE v

\* '{:0<bits>b}'.format(val & ((1 << bits) - 1)), val made non-negative first
\* by adding 1 << bits: val modulo 2^bits
MaskedBits(val, bits) ==
    LET low == LowBits(TrimLeadingZeros(ToBin(Abs(val))), bits)
    IN  IF val >= 0 THEN low
        ELSE LowBits(AddBits([i \in 1..bits |-> IF low[i] = "1" THEN "0" ELSE "1"],
                             <<"1">>), bits)

\* to_nbits(val, bits): raises when the formatted string is not bits long
to_nbits(val, bits) ==
    LET str == MaskedBits(val, bits)
    IN  [ok |-> Len(str) = bits, s |-> str]

\* parse_register(tok): R(\d+)
parse_register(tok) == [ok |-> tok.k = "reg", v |-> tok.n]

\* parse_memory(tok): M\[(\d+)\]
parse_memory(tok) == [ok |-> tok.k = "mem" /\ tok.n >= 0, v |-> tok.n]

\* int(tok, 0) and its hexadecimal and binary variants
parse_int(tok) == [ok |-> tok.k = "num", v |-> tok.n]

NoInst == [ok |-> FALSE, inst |-> << >>]

\* opcode + fields, the operands having parsed
Encode(opcode, fields) ==
    IF \A i \in DOMAIN fields : fields[i].ok
    THEN [ok |-> TRUE,
          inst |-> opcode \o (IF Len(fields) >= 1 THEN fields[1].s ELSE << >>)
                          \o (IF Len(fields) >= 2 THEN fields[2].s ELSE << >>)]
    ELSE NoInst

\* a parsed operand as a field of the given width
Field(parsed, bits) ==
    IF parsed.ok THEN to_nbits(parsed.v, bits) ELSE [ok |-> FALSE, s |-> << >>]

\* assemble_line(line, table, label_map) on the tokens of the line
assemble_line(mnemonic, args) ==
    LET length == MNEMONIC_TABLE(mnemonic).length
        opcode == MNEMONIC_TABLE(mnemonic).opcode
        n      == Len(args) + 1
    IN  CASE ~InTable(mnemonic) -> NoInst
          [] length = 54 ->
                IF n < 3 THEN NoInst
                ELSE Encode(opcode, << Field(parse_register(args[1]), 5),
                                       Field(parse_register(args[2]), 5) >>)
          [] length = 59 ->
                IF n < 2 THEN NoInst
                ELSE Encode(opcode, << Field(parse_register(args[1]), 5) >>)
          [] length = 35 ->
                IF mnemonic \in {"CARGA", "SIREGCERO", "SIREGNCERO"}
                THEN IF n < 3 THEN NoInst
                     ELSE Encode(opcode, << Field(parse_register(args[1]), 5),
                                            Field(parse_memory(args[2]), 24) >>)
                ELSE IF n = 2 /\ parse_memory(args[1]).ok
                     THEN Encode(opcode, << to_nbits(0, 5),
                                            Field(parse_memory(args[1]), 24) >>)
                     ELSE IF n >= 3
                          THEN Encode(opcode, << Field(parse_register(args[1]), 5),
                                                 Field(parse_memory(args[2]), 24) >>)
                          ELSE NoInst
          [] length = 27 ->
                IF n < 3 THEN NoInst
                ELSE Encode(opcode, << Field(parse_register(args[1]), 5),
                                       Field(parse_int(args[2]), 32) >>)
          [] length = 40 ->
                IF n < 2 THEN NoInst
                ELSE IF parse_memory(args[1]).ok
                     THEN Encode(opcode, << Field(parse_memory(args[1]), 24) >>)
                     ELSE Encode(opcode, << Field(parse_int(args[1]), 24) >>)
          [] length = 64 -> [ok |-> TRUE, inst |-> opcode]
          [] OTHER -> NoInst

\* Pass 1: the words a line adds to instr_count
data_count_one(line) == 1
data_count(line) == Len(line.vals)

instr_count_of(line) ==
    CASE line.kind = "label" -> 0
      [] line.kind = "data"  -> data_count(line)
      [] OTHER               -> 1

\* Pass 1 over the lines from i on: the label map, or a duplicate label
RECURSIVE Pass1(_, _, _, _)
Pass1(lines, i, label_map, instr_count) ==
    IF i > Len(lines) THEN [ok |-> TRUE, label_map |-> label_map]
    ELSE IF lines[i].kind = "label"
         THEN IF lines[i].name \in DOMAIN label_map
              THEN [ok |-> FALSE, label_map |-> label_map]
              ELSE Pass1(lines, i + 1,
                         [l \in DOMAIN label_map \cup {lines[i].name} |->
                             IF l = lines[i].name THEN instr_count ELSE label_map[l]],
                         instr_count)
         ELSE Pass1(lines, i + 1, label_map, instr_count + instr_count_of(lines[i]))

\* replace_mem_label: M[label] and M[label+k] with a known label
replace_mem_label(tok, label_map) ==
    IF tok.k = "memlbl" /\ tok.lbl \in DOMAIN label_map
    THEN Mem(label_map[tok.lbl] + tok.n)
    ELSE tok

\* bare labels in operand positions 1 and 2
replace_bare_label(tok, i, label_map) ==
    IF i \in {1, 2} /\ tok.k = "lbl" /\ tok.lbl \in DOMAIN label_map
    THEN Num(label_map[tok.lbl])
    ELSE tok

rewrite_operands(args, label_map) ==
    [i \in DOMAIN args |->
        replace_bare_label(replace_mem_label(args[i], label_map), i, label_map)]

\* the words of a .data line
data_words(vals) == [i \in DOMAIN vals |-> to_nbits(vals[i], 64)]

\* Pass 2 over the lines from i on: the emitted words, or an error
RECURSIVE Pass2(_, _, _, _)
Pass2(lines, i, label_map, out) ==
    IF i > Len(lines) THEN [ok |-> TRUE, words |-> out]
    ELSE CASE lines[i].kind = "label" -> Pass2(lines, i + 1, label_map, out)
           [] lines[i].kind = "data" ->
                LET ws == data_words(lines[i].vals)
                IN  IF \A j \in DOMAIN ws : ws[j].ok
                    THEN Pass2(lines, i + 1, label_map,
                               out \o [j \in DOMAIN ws |-> ws[j].s])
                    ELSE [ok |-> FALSE, words |-> out]
           [] OTHER ->
                LET r == assemble_line(lines[i].mn,
                                       rewrite_operands(lines[i].args, label_map))
                IN  IF r.ok /\ Len(r.inst) = 64
                    THEN Pass2(lines, i + 1, label_map, Append(out, r.inst))
                    ELSE [ok |-> FALSE, words |-> out]

PARA_BITS == MNEMONIC_TABLE("PARA").opcode

\* ensure_para(lines)
ensure_para_always(lines) == Append(lines, PARA_BITS)
ensure_para(lines) ==
    IF lines = << >> \/ lines[Len(lines)] # PARA_BITS
    THEN Append(lines, PARA_BITS)
    ELSE lines

\* assemble_text(text)
assemble_text(lines) ==
    LET p1 == Pass1(lines, 1, << >>, 0)
    IN  IF ~p1.ok THEN [status |-> "error", words |-> << >>, label_map |-> << >>]
        ELSE LET p2 == Pass2(lines, 1, p1.label_map, << >>)
             IN  IF ~p2.ok
                 THEN [status |-> "error", words |-> << >>, label_map |-> p1.label_map]
                 ELSE [status |-> "ok", words |-> ensure_para(p2.words),
                       label_map |-> p1.label_map]

(* Inputs *)

AsmLines ==
    { LabelLine("a"), LabelLine("b"),
      DataLine(<<7, -1>>),
      InstrLine("PARA", << >>),
      InstrLine("SUMA", <<Reg(32), Reg(5)>>),
      InstrLine("CARGA", <<Reg(4), MemLbl("a", 0)>>),
      InstrLine("CARGA", <<Reg(5), MemLbl("b", -1)>>),
      InstrLine("GUARD", <<MemLbl("b", 1)>>),
      InstrLine("SALTA", <<Lbl("a")>>),
      InstrLine("ICARGA", <<Reg(4), Lbl("b")>>) }

AsmSources == SeqsUpTo(AsmLines, MaxAsmLines)

AssembleText ==
    /\ as_result.status = "none"
    /\ \E source \in AsmSources :
          /\ as_source' = source
          /\ as_result' = assemble_text(source)
    /\ UNCHANGED <<loaderVars, outputVars, inputVars, driverVars, compVars, hostVars, auxVars>>

InitAsm ==
    /\ Memory_array = << >>
    /\ LinkInit
    /\ OutputInit
    /\ InputInit
    /\ DriverInit
    /\ ToolInit

NextAsm == AssembleText

SpecAsm == InitAsm /\ [][NextAsm]_vars

(* What a source asks for: one item per instruction line and per .data
   value, in source order *)
RECURSIVE SourceItems(_, _)
SourceItems(lines, i) ==
    IF i > Len(lines) THEN << >>
    ELSE (CASE lines[i].kind = "label" -> << >>
            [] lines[i].kind = "data" ->
                 [j \in DOMAIN lines[i].vals |-> [mn |-> ".data", val |-> lines[i].vals[j]]]
            [] OTHER -> << [mn |-> lines[i].mn, val |-> 0] >>)
         \o SourceItems(lines, i + 1)

\* the word at a position is the word of that item
WordOfItem(word, item) ==
    /\ IsBitString(word)
    /\ Len(word) = WORDS_SIZE_BITS
    /\ IF item.mn = ".data"
       THEN word = MaskedBits(item.val, WORDS_SIZE_BITS)
       ELSE SubSeq(word, 1, OpcodeLength(item.mn)) = MNEMONIC_TABLE(item.mn).opcode

\* C11 (as stated): a successful assemble_text returns exactly one word per
\* instruction line and per .data value of the source
C11_OneWordPerItem ==
    as_result.status = "ok" =>
        Len(as_result.words) = Len(SourceItems(as_source, 1))

\* C11 (amended): a successful assemble_text returns only 64-bit words: one
\* per instruction line and per .data value, in source order, followed by one
\* more PARA word exactly when the last of them is not the PARA word (or
\* there is none)
C11_OneWordPerItemThenPara ==
    as_result.status = "ok" =>
        LET items == SourceItems(as_source, 1)
            n     == Len(items)
            words == as_result.words
            ends  == n > 0 /\ words[n] = PARA_BITS
        IN  /\ Len(words) >= n
            /\ \A k \in 1..n : WordOfItem(words[k], items[k])
            /\ Len(words) = IF ends THEN n ELSE n + 1
            /\ ~ends => words[n + 1] = PARA_BITS

\* a source with data after its last instruction is assembled: the PARA word
\* is appended after the data
C11_Witness ==
    /\ as_result.status = "ok"
    /\ Len(as_source) = 3
    /\ as_source[2].kind = "instr"
    /\ as_source[3].kind = "data"
    /\ Len(as_result.words) = 4
    /\ as_result.words[4] = PARA_BITS

\* the words emitted for the lines before line i
WordsBefore(lines, i) == Len(SourceItems(SubSeq(lines, 1, i - 1), 1))

\* the line that declares a label
LabelDecl(lines, l) ==
    CHOOSE i \in DOMAIN lines : lines[i].kind = "label" /\ lines[i].name = l

\* the address or immediate field that ends an instruction word
LastField(word, mnemonic) ==
    BitsValue(LowBits(word, IF OpcodeLength(mnemonic) = 27 THEN 32 ELSE ADDRESS_BITS))

\* C12: in a successful assembly every operand that references a label (bare,
\* M[label] or M[label+k], M[label-k]) is encoded as the index of the first
\* word emitted after the label's declaration, plus the offset
C12_LabelsResolveToWordIndex ==
    as_result.status = "ok" =>
        \A i \in DOMAIN as_source :
            as_source[i].kind = "instr" =>
                \A j \in DOMAIN as_source[i].args :
                    LET tok == as_source[i].args[j]
                    IN  tok.k \in {"memlbl", "lbl"} =>
                            LastField(as_result.words[WordsBefore(as_source, i) + 1],
                                      as_source[i].mn)
                              = WordsBefore(as_source, LabelDecl(as_source, tok.lbl))
                                + tok.n

\* an operand with an offset references a label declared after a .data line
\* of two values
C12_Witness ==
    /\ as_result.status = "ok"
    /\ \E i \in DOMAIN as_source :
          /\ as_source[i].kind = "instr"
          /\ \E j \in DOMAIN as_source[i].args :
                /\ as_source[i].args[j].k = "memlbl"
                /\ as_source[i].args[j].n # 0
                /\ as_result.label_map[as_source[i].args[j].lbl] = 2

\* a register operand that does not fit the 5-bit register field
OversizedRegister(line) ==
    /\ line.kind = "instr"
    /\ \E j \in DOMAIN line.args : line.args[j].k = "reg" /\ line.args[j].n >= 32

\* C13: a source with a register operand that does not fit its 5-bit field
\* is never assembled: assemble_text raises an error
C13_OversizedOperandRaises ==
    (\E i \in DOMAIN as_source : OversizedRegister(as_source[i])) =>
        as_result.status # "ok"

-----------------------------------------------------------------------------
(* The compiler (model/compilador/parser_spl.py).  Syntax trees are the
   tuples the grammar actions build: <<"num", v>>, <<"name", n>>,
   <<"memref_label", label, offset>>, <<"uminus", e>>, <<"binop", op, l, r>>,
   <<"cmp", l, op, r>>, <<"and", l, r>>, <<"or", l, r>>, <<"not", c>>.
   A generated assembly line is a tuple of its mnemonic and operands:
   registers as numbers, labels as <<prefix, n>> or <<name>>;
   <<"label", l>> stands for the line "l:". *)

reg_start == 4
reg_end == 15

\* ParserContext(); live is FALSE for ctx = None
NewParserContext ==
    [live |-> TRUE, next_reg |-> reg_start, var_map |-> << >>, label_count |-> 0]
NoParserContext ==
    [live |-> FALSE, next_reg |-> reg_start, var_map |-> << >>, label_count |-> 0]

\* the register the next allocation returns
unwrapped_next_reg(c) == c.next_reg
wrapped_next_reg(c) == IF c.next_reg > reg_end THEN reg_start ELSE c.next_reg

\* ParserContext.reg_for(var)
reg_for(c, var) ==
    IF var \in DOMAIN c.var_map THEN [ctx |-> c, r |-> c.var_map[var]]
    ELSE LET r == wrapped_next_reg(c)
         IN  [ctx |-> [c EXCEPT !.next_reg = r + 1,
                                !.var_map = [v \in DOMAIN c.var_map \cup {var} |->
                                                IF v = var THEN r ELSE c.var_map[v]]],
              r |-> r]

\* ParserContext.new_temp()
new_temp(c) ==
    LET r == wrapped_next_reg(c)
    IN  [ctx |-> [c EXCEPT !.next_reg = r + 1], r |-> r]

\* ParserContext.new_label(prefix)
new_label(c, prefix) ==
    [ctx |-> [c EXCEPT !.label_count = c.label_count + 1],
     label |-> <<prefix, c.label_count + 1>>]

\* generate_expr_asm(ast, target_reg): the context after it, and the lines
RECURSIVE generate_expr_asm(_, _, _)
generate_expr_asm(c, ast, target_reg) ==
    CASE ast[1] = "num" ->
            [ctx |-> c, lines |-> << <<"ICARGA", target_reg, ast[2]>> >>]
      [] ast[1] = "name" ->
            LET src == reg_for(c, ast[2])
            IN  [lines |-> IF src.r # target_reg
                           THEN << <<"COPIA", target_reg, src.r>> >>
                           ELSE << >>,
                 ctx |-> src.ctx]
      [] ast[1] = "memref_label" ->
            [ctx |-> c, lines |-> << <<"CARGA", target_reg, ast[2], ast[3]>> >>]
      [] ast[1] = "uminus" ->
            LET inner == generate_expr_asm(c, ast[2], target_reg)
                temp  == new_temp(inner.ctx)
            IN  [lines |-> inner.lines \o << <<"ICARGA", temp.r, -1>>,
                                             <<"MULT", target_reg, temp.r>> >>,
                 ctx |-> temp.ctx]
      [] ast[1] = "binop" ->
            LET left  == generate_expr_asm(c, ast[3], target_reg)
                temp  == new_temp(left.ctx)
                right == generate_expr_asm(temp.ctx, ast[4], temp.r)
                op    == CASE ast[2] = "+" -> "SUMA"
                           [] ast[2] = "-" -> "RESTA"
                           [] ast[2] = "*" -> "MULT"
            IN  [lines |-> left.lines \o right.lines
                             \o << <<op, target_reg, temp.r>> >>,
                 ctx |-> right.ctx]

\* one operand of a comparison: its register, and the line that loads a number
cmp_operand(c, operand) ==
    IF operand[1] = "name"
    THEN LET a == reg_for(c, operand[2])
         IN  [ctx |-> a.ctx, r |-> a.r, lines |-> << >>]
    ELSE LET t == new_temp(c)
         IN  [ctx |-> t.ctx, r |-> t.r,
              lines |-> << <<"ICARGA", t.r, operand[2]>> >>]

\* _gen_cmp_asm(ast, true_label, end_label)
gen_cmp_asm(c, ast, true_label, end_label) ==
    LET left  == cmp_operand(c, ast[2])
        right == cmp_operand(left.ctx, ast[4])
        op    == ast[3]
        jumps == CASE op = "==" -> << <<"SICERO", true_label>> >>
                   [] op = "!=" -> << <<"SINCERO", true_label>> >>
                   [] op = "<"  -> << <<"SINEG", true_label>> >>
                   [] op = "<=" -> << <<"SICERO", true_label>>, <<"SINEG", true_label>> >>
                   [] op = ">"  -> << <<"SIPOS", true_label>> >>
                   [] op = ">=" -> << <<"SICERO", true_label>>, <<"SIPOS", true_label>> >>
    IN  [lines |-> left.lines \o right.lines
                     \o << <<"COMP", left.r, right.r>> >>
                     \o jumps
                     \o << <<"SALTA", end_label>> >>,
         ctx |-> right.ctx]

\* generate_cond_asm(ast, true_label, end_label)
RECURSIVE generate_cond_asm(_, _, _, _)
generate_cond_asm(c, ast, true_label, end_label) ==
    CASE ast[1] = "cmp" -> gen_cmp_asm(c, ast, true_label, end_label)
      [] ast[1] = "and" ->
            LET mid == new_label(c, "and_mid")
                s1  == generate_cond_asm(mid.ctx, ast[2], mid.label, end_label)
                s2  == generate_cond_asm(s1.ctx, ast[3], true_label, end_label)
            IN  [lines |-> s1.lines \o << <<"label", mid.label>> >> \o s2.lines,
                 ctx |-> s2.ctx]
      [] ast[1] = "or" ->
            LET cont == new_label(c, "or_cont")
                s1   == generate_cond_asm(cont.ctx, ast[2], true_label, cont.label)
                s2   == generate_cond_asm(s1.ctx, ast[3], true_label, end_label)
            IN  [lines |-> s1.lines \o << <<"label", cont.label>> >> \o s2.lines,
                 ctx |-> s2.ctx]
      [] ast[1] = "not" -> generate_cond_asm(c, ast[2], end_label, true_label)

(* What the generated lines do when the machine runs them (the CPU is not
   part of the sources; its instructions are taken from the instruction-set
   description): registers are a function from register numbers to integers,
   the flags are the sign of the last result. *)

Sign(v) == IF v < 0 THEN -1 ELSE IF v = 0 THEN 0 ELSE 1

\* the line "l:" of a label, or 0 when the label is not in the lines
LabelIndex(lines, l) ==
    IF \E i \in DOMAIN lines : lines[i][1] = "label" /\ lines[i][2] = l
    THEN CHOOSE i \in DOMAIN lines : lines[i][1] = "label" /\ lines[i][2] = l
    ELSE 0

\* a conditional jump is taken
JumpTaken(mnemonic, flags) ==
    CASE mnemonic = "SALTA"   -> TRUE
      [] mnemonic = "SICERO"  -> flags = 0
      [] mnemonic = "SINCERO" -> flags # 0
      [] mnemonic = "SINEG"   -> flags < 0
      [] mnemonic = "SIPOS"   -> flags > 0

\* Run the lines from line pc on.  The run ends by falling off the end of the
\* lines (exit << >>) or by jumping to a label that is not among them (exit
\* is that label).
RECURSIVE Exec(_, _, _, _)
Exec(lines, pc, regs, flags) ==
    IF pc > Len(lines) THEN [exit |-> << >>, regs |-> regs]
    ELSE LET l == lines[pc]
         IN  CASE l[1] = "ICARGA" ->
                    Exec(lines, pc + 1, [regs EXCEPT ![l[2]] = l[3]], flags)
               [] l[1] = "COPIA" ->
                    Exec(lines, pc + 1, [regs EXCEPT ![l[2]] = regs[l[3]]], flags)
               [] l[1] \in {"SUMA", "RESTA", "MULT"} ->
                    LET v == CASE l[1] = "SUMA"  -> regs[l[2]] + regs[l[3]]
                               [] l[1] = "RESTA" -> regs[l[2]] - regs[l[3]]
                               [] l[1] = "MULT"  -> regs[l[2]] * regs[l[3]]
                    IN  Exec(lines, pc + 1, [regs EXCEPT ![l[2]] = v], Sign(v))
               [] l[1] = "COMP" ->
                    Exec(lines, pc + 1, regs, Sign(regs[l[2]] - regs[l[3]]))
               [] l[1] \in {"SALTA", "SICERO", "SINCERO", "SINEG", "SIPOS"} ->
                    IF JumpTaken(l[1], flags)
                    THEN IF LabelIndex(lines, l[2]) = 0
                         THEN [exit |-> l[2], regs |-> regs]
                         ELSE Exec(lines, LabelIndex(lines, l[2]), regs, flags)
                    ELSE Exec(lines, pc + 1, regs, flags)
               [] OTHER -> Exec(lines, pc + 1, regs, flags)

\* the value of an expression of numbers, names and + - * under the values
\* of the variables
RECURSIVE EvalExpr(_, _)
EvalExpr(ast, env) ==
    CASE ast[1] = "num"    -> ast[2]
      [] ast[1] = "name"   -> env[ast[2]]
      [] ast[1] = "uminus" -> 0 - EvalExpr(ast[2], env)
      [] ast[1] = "binop"  ->
            CASE ast[2] = "+" -> EvalExpr(ast[3], env) + EvalExpr(ast[4], env)
              [] ast[2] = "-" -> EvalExpr(ast[3], env) - EvalExpr(ast[4], env)
              [] ast[2] = "*" -> EvalExpr(ast[3], env) * EvalExpr(ast[4], env)

\* the truth of a condition under the values of the variables
RECURSIVE EvalCond(_, _)
EvalCond(ast, env) ==
    CASE ast[1] = "cmp" ->
            LET l == EvalExpr(ast[2], env)
                r == EvalExpr(ast[4], env)
            IN  (CASE ast[3] = "==" -> l = r
                   [] ast[3] = "!=" -> l # r
                   [] ast[3] = "<"  -> l < r
                   [] ast[3] = "<=" -> l <= r
                   [] ast[3] = ">"  -> l > r
                   [] ast[3] = ">=" -> l >= r)
      [] ast[1] = "and" -> EvalCond(ast[2], env) /\ EvalCond(ast[3], env)
      [] ast[1] = "or"  -> EvalCond(ast[2], env) \/ EvalCond(ast[3], env)
      [] ast[1] = "not" -> ~EvalCond(ast[2], env)

\* the registers when the variables of var_map hold the values of env
RegistersOf(var_map, env) ==
    [r \in 0..31 |->
        IF \E v \in DOMAIN var_map : var_map[v] = r
        THEN env[CHOOSE v \in DOMAIN var_map : var_map[v] = r]
        ELSE 0]

(* The grammar actions.  A statement of the source text is a tuple of its
   kind and parts; its expressions are written as in the text, with
   <<"index2d", name, i, j>> for name[i][j] and <<"field", var, f>> for
   var.f, which the actions of the expression rules turn into trees.
   The state of a parse is the module's globals and the value p[0] of the
   statement just reduced; ok is FALSE once an action raised SyntaxError. *)

\* type_table.items(): the first type, in insertion order, with the field
FirstTypeWith(table, field) ==
    IF \E i \in DOMAIN table : \E k \in DOMAIN table[i][2] : table[i][2][k] = field
    THEN CHOOSE i \in DOMAIN table :
            /\ \E k \in DOMAIN table[i][2] : table[i][2][k] = field
            /\ \A j \in 1..(i - 1) : \A k \in DOMAIN table[j][2] : table[j][2][k] # field
    ELSE 0

\* fields.index(field), counted from 0
FieldIndex(fields, field) ==
    (CHOOSE k \in DOMAIN fields :
        fields[k] = field /\ \A j \in 1..(k - 1) : fields[j] # field) - 1

\* typename in type_table
TypeIndex(table, typename) ==
    IF \E i \in DOMAIN table : table[i][1] = typename
    THEN CHOOSE i \in DOMAIN table : table[i][1] = typename
    ELSE 0

\* the actions of the expression rules: the tree of an expression, or
\* SyntaxError
RECURSIVE p_expr(_, _, _)
p_expr(texpr, table, dims) ==
    CASE texpr[1] = "index2d" ->
            \* p_expr_array_access_const_2d
            IF texpr[2] \in DOMAIN dims /\ Len(dims[texpr[2]]) >= 2
            THEN [ok |-> TRUE,
                  ast |-> <<"memref_label", <<texpr[2]>>,
                            texpr[3] * dims[texpr[2]][2] + texpr[4]>>]
            ELSE [ok |-> FALSE, ast |-> << >>]
      [] texpr[1] = "field" ->
            \* p_expr_field_access
            IF FirstTypeWith(table, texpr[3]) # 0
            THEN [ok |-> TRUE,
                  ast |-> <<"memref_label", <<texpr[2]>>,
                            FieldIndex(table[FirstTypeWith(table, texpr[3])][2], texpr[3])>>]
            ELSE [ok |-> FALSE, ast |-> << >>]
      [] texpr[1] = "uminus" ->
            LET e == p_expr(texpr[2], table, dims)
            IN  [ok |-> e.ok, ast |-> <<"uminus", e.ast>>]
      [] texpr[1] = "binop" ->
            LET l == p_expr(texpr[3], table, dims)
                r == p_expr(texpr[4], table, dims)
            IN  [ok |-> l.ok /\ r.ok, ast |-> <<"binop", texpr[2], l.ast, r.ast>>]
      [] OTHER -> [ok |-> TRUE, ast |-> texpr]

Raise(st) == [st EXCEPT !.ok = FALSE, !.out = << >>]

\* p_stmt_assignment_expr
p_stmt_assignment_expr(st, dst, texpr) ==
    LET e == p_expr(texpr, st.type_table, st.array_dims)
    IN  IF ~e.ok THEN Raise(st)
        ELSE LET reg_dst == reg_for(st.ctx, dst)
                 g       == generate_expr_asm(reg_dst.ctx, e.ast, reg_dst.r)
             IN  [st EXCEPT !.ctx = g.ctx, !.out = g.lines]

\* p_stmt_register_assign
p_stmt_register_assign(st, reg, texpr) ==
    LET e == p_expr(texpr, st.type_table, st.array_dims)
    IN  IF ~e.ok \/ reg = 0 THEN Raise(st)
        ELSE LET g == generate_expr_asm(st.ctx, e.ast, reg)
             IN  [st EXCEPT !.ctx = g.ctx, !.out = g.lines]

\* p_stmt_type_decl: type_table[typename] = list(fields)
p_stmt_type_decl(st, typename, fields) ==
    LET i == TypeIndex(st.type_table, typename)
    IN  [st EXCEPT !.type_table =
                      IF i = 0 THEN Append(st.type_table, <<typename, fields>>)
                      ELSE [st.type_table EXCEPT ![i] = <<typename, fields>>],
                   !.out = << <<"comment">> >>]

\* the word of a .data value 0
ZeroData(n) == [i \in 1..n |-> ZeroWord]

\* p_stmt_var_typed
p_stmt_var_typed(st, varname, typename) ==
    LET i == TypeIndex(st.type_table, typename)
    IN  IF i = 0 THEN Raise(st)
        ELSE [st EXCEPT !.data_section =
                            st.data_section
                              \o << <<"label", <<varname>>>>,
                                    <<".data", ZeroData(Len(st.type_table[i][2]))>> >>,
                        !.out = << <<"comment">> >>]

\* p_stmt_field_assign
p_stmt_field_assign(st, var, field, texpr) ==
    LET e == p_expr(texpr, st.type_table, st.array_dims)
        t == FirstTypeWith(st.type_table, field)
    IN  IF ~e.ok \/ t = 0 THEN Raise(st)
        ELSE LET temp == new_temp(st.ctx)
                 g    == generate_expr_asm(temp.ctx, e.ast, temp.r)
             IN  [st EXCEPT !.ctx = g.ctx,
                            !.out = Append(g.lines,
                                           <<"GUARD", temp.r, <<var>>,
                                             FieldIndex(st.type_table[t][2], field)>>)]

\* p_stmt_array_decl and p_stmt_array_decl_2d
p_stmt_array_decl(st, name, dims) ==
    LET size == IF Len(dims) = 1 THEN dims[1] ELSE dims[1] * dims[2]
    IN  [st EXCEPT !.array_dims = [n \in DOMAIN st.array_dims \cup {name} |->
                                      IF n = name THEN dims ELSE st.array_dims[n]],
                   !.out = << <<"label", <<name>>>>, <<".data", ZeroData(size)>> >>]

\* bytes.ljust(8, b'\x00')
LJust8(bs) == bs \o [i \in 1..(8 - Len(bs)) |-> 0]

\* emit_string_no_nl(s) on the bytes of s
RECURSIVE emit_string_no_nl(_, _)
emit_string_no_nl(st, bfull) ==
    IF bfull = << >> THEN st
    ELSE LET n     == IF Len(bfull) < 8 THEN Len(bfull) ELSE 8
             val   == FromBytesLittle(LJust8(SubSeq(bfull, 1, n)))
             lbl   == new_label(st.ctx, "str")
             r     == new_temp(lbl.ctx)
         IN  emit_string_no_nl(
                 [st EXCEPT !.ctx = r.ctx,
                            !.data_section = st.data_section
                                \o << <<"label", lbl.label>>, <<".data", <<val>>>> >>,
                            !.out = st.out
                                \o << <<"CARGA", r.r, lbl.label, 0>>,
                                      <<"GUARD", r.r, << >>, E_S_RANGE_START>> >>],
                 SubSeq(bfull, n + 1, Len(bfull)))

\* the word of .data {ord('\n')}
NewlineData == FromBytesLittle(LJust8(<<10>>))

\* p_stmt_print with one string argument
p_stmt_print(st, s) ==
    LET body   == emit_string_no_nl([st EXCEPT !.out = << >>], EncodeUtf8(s))
        nl_lbl == new_label(body.ctx, "str")
        tmp    == new_temp(nl_lbl.ctx)
    IN  [body EXCEPT !.ctx = tmp.ctx,
                     !.data_section = body.data_section
                         \o << <<"label", nl_lbl.label>>, <<".data", <<NewlineData>>>> >>,
                     !.out = body.out
                         \o << <<"CARGA", tmp.r, nl_lbl.label, 0>>,
                               <<"GUARD", tmp.r, << >>, E_S_RANGE_START>> >>]

\* p_stmt_if_cond with an empty block
p_stmt_if_cond(st, cond_ast) ==
    LET true_label == new_label(st.ctx, "if_true")
        end_label  == new_label(true_label.ctx, "if_end")
        pre        == generate_cond_asm(end_label.ctx, cond_ast,
                                        true_label.label, end_label.label)
    IN  [st EXCEPT !.ctx = pre.ctx,
                   !.out = pre.lines \o << <<"label", true_label.label>>,
                                           <<"label", end_label.label>> >>]

\* p_stmt_if_le, the rule IF NAME LT NAME COLON BEGIN stmts END, which the
\* parser prefers to the cond rule for two names (it shifts COLON); the block
\* is one assignment, reduced before the if statement is
p_stmt_if_le(st, left, right, body) ==
    CHOOSE result \in
        { IF ~b.ok THEN Raise(st)
          ELSE LET reg_left   == reg_for(b.ctx, left)
                   reg_right  == reg_for(reg_left.ctx, right)
                   true_label == new_label(reg_right.ctx, "if_true")
                   end_label  == new_label(true_label.ctx, "if_end")
               IN  [b EXCEPT !.out = << <<"COMP", reg_left.r, reg_right.r>>,
                                        <<"SIPOS", end_label.label>>,
                                        <<"label", true_label.label>> >>
                                     \o b.out
                                     \o << <<"label", end_label.label>> >>,
                             !.ctx = end_label.ctx]
          : b \in {p_stmt_assignment_expr(st, body[2], body[3])} } : TRUE

\* the action of the rule that reduces a statement
p_stmt(st, stmt) ==
    CASE stmt[1] = "assignment_expr" -> p_stmt_assignment_expr(st, stmt[2], stmt[3])
      [] stmt[1] = "register_assign" -> p_stmt_register_assign(st, stmt[2], stmt[3])
      [] stmt[1] = "type_decl"       -> p_stmt_type_decl(st, stmt[2], stmt[3])
      [] stmt[1] = "var_typed"       -> p_stmt_var_typed(st, stmt[2], stmt[3])
      [] stmt[1] = "field_assign"    -> p_stmt_field_assign(st, stmt[2], stmt[3], stmt[4])
      [] stmt[1] = "array_decl"      -> p_stmt_array_decl(st, stmt[2], stmt[3])
      [] stmt[1] = "print"           -> p_stmt_print(st, stmt[2])
      [] stmt[1] = "if_cond"         -> p_stmt_if_cond(st, stmt[2])
      [] stmt[1] = "if_lt"           -> p_stmt_if_le(st, stmt[2], stmt[3], stmt[4])

\* '\n'.join of the statements' lines
RECURSIVE JoinBody(_)
JoinBody(body) ==
    IF body = << >> THEN << >> ELSE body[1] \o JoinBody(Tail(body))

\* compile_high_level after the parse: the data section goes after the
\* generated assembly, and after a PARA when the assembly does not end in one
finish(body, data) ==
    LET result == JoinBody(body)
    IN  IF data # << >>
        THEN IF result # << >>
             THEN (IF result[Len(result)][1] # "PARA"
                   THEN Append(result, <<"PARA">>)
                   ELSE result) \o data
             ELSE data
        ELSE result

(* compile_high_level as steps: the call up to the start of the parse, one
   step per statement the parser reduces, and the end of the parse *)

MaxCompiles == 2
MaxStmts == 2
MaxTypeStmts == 4

\* the globals as the grammar actions see them
CurrentParse ==
    [ctx |-> ctx, type_table |-> type_table, data_section |-> data_section,
     array_dims |-> array_dims, out |-> << >>, ok |-> TRUE]

\* compile_high_level(text) up to parser.parse: the type table and the data
\* section are cleared and a new context is made
compile_high_level_begin ==
    /\ ~ctx.live
    /\ cc_count < MaxCompiles
    /\ type_table' = << >>
    /\ data_section' = << >>
    /\ ctx' = NewParserContext
    /\ cc_text' = << >>
    /\ cc_body' = << >>
    /\ cc_result' = [status |-> "compiling", lines |-> << >>]
    /\ cc_count' = cc_count + 1
    /\ UNCHANGED array_dims
    /\ UNCHANGED <<loaderVars, outputVars, inputVars, driverVars, asmVars, hostVars, auxVars>>

\* the parser reduces the next statement of the text; a SyntaxError ends the
\* call (finally: ctx = None)
Reduce(stmt) ==
    LET st == p_stmt(CurrentParse, stmt)
    IN  /\ ctx.live
        /\ type_table' = st.type_table
        /\ data_section' = st.data_section
        /\ array_dims' = st.array_dims
        /\ cc_text' = Append(cc_text, stmt)
        /\ IF st.ok
           THEN /\ ctx' = st.ctx
                /\ cc_body' = Append(cc_body, st.out)
                /\ UNCHANGED cc_result
           ELSE /\ ctx' = NoParserContext
                /\ cc_result' = [status |-> "SyntaxError", lines |-> << >>]
                /\ UNCHANGED cc_body
        /\ UNCHANGED cc_count
        /\ UNCHANGED <<loaderVars, outputVars, inputVars, driverVars, asmVars, hostVars, auxVars>>

\* the parse is over: the result is returned (finally: ctx = None)
compile_high_level_end ==
    /\ ctx.live
    /\ cc_result' = [status |-> "ok", lines |-> finish(cc_body, data_section)]
    /\ ctx' = NoParserContext
    /\ UNCHANGED <<type_table, data_section, array_dims, cc_text, cc_body, cc_count>>
    /\ UNCHANGED <<loaderVars, outputVars, inputVars, driverVars, asmVars, hostVars, auxVars>>

(* Inputs *)

NameA == <<"name", "a">>
NameB == <<"name", "b">>
NameX == <<"name", "x">>

\* x >= 10k and x < 10k + 5
Range(k) ==
    <<"and", <<"cmp", NameX, ">=", <<"num", 10 * k>>>>,
             <<"cmp", NameX, "<", <<"num", 10 * k + 5>>>>>>

\* x in range 1 or x in range 2 or ... or x in range n
RECURSIVE RangeChain(_)
RangeChain(n) ==
    IF n = 1 THEN Range(1) ELSE <<"or", RangeChain(n - 1), Range(n)>>

\* a condition with as many numbers as there are registers to allocate
LongCond == RangeChain((reg_end - reg_start + 1) \div 2)

AssignmentStmts ==
    << <<"assignment_expr", "a", <<"binop", "-", NameB, NameA>>>>,
       <<"assignment_expr", "x", <<"binop", "+", NameX, <<"num", 1>>>>>>,
       <<"assignment_expr", "x", <<"index2d", "m", 1, 1>>>> >>

RegisterStmts ==
    [i \in 1..5 |-> <<"register_assign", i - 1, <<"num", 7>>>>]

ArrayStmts ==
    << <<"array_decl", "m", <<2, 3>>>>,
       <<"array_decl", "m", <<2>>>> >>

TextHiThere == <<104, 105, 32, 116, 104, 101, 114, 101, 33>>

PrintStmts ==
    << <<"print", TextHi>>,
       <<"print", TextHiThere>> >>

IfStmts ==
    << <<"if_cond", <<"cmp", NameX, "<", <<"num", 5>>>>>>,
       <<"if_cond", <<"and", <<"cmp", NameX, ">=", <<"num", 3>>>>,
                            <<"not", <<"cmp", NameX, "==", NameA>>>>>>>>,
       <<"if_cond", LongCond>> >>

\* if x < a: b = 1     and     if a < b: x = 7
IfLtStmts ==
    << <<"if_lt", "x", "a", <<"assignment_expr", "b", <<"num", 1>>>>>>,
       <<"if_lt", "a", "b", <<"assignment_expr", "x", <<"num", 7>>>>>> >>

TypeStmts ==
    << <<"type_decl", "T", <<"f", "g">>>>,
       <<"type_decl", "U", <<"g", "f">>>> >>

VarTypedStmts ==
    << <<"var_typed", "v", "T">>,
       <<"var_typed", "v", "U">> >>

FieldStmts ==
    << <<"field_assign", "v", "f", <<"num", 1>>>>,
       <<"field_assign", "v", "g", <<"num", 1>>>> >>

AssignmentExpr ==
    /\ Len(cc_text) < MaxStmts
    /\ \E i \in DOMAIN AssignmentStmts : Reduce(AssignmentStmts[i])

RegisterAssign ==
    /\ Len(cc_text) < MaxStmts
    /\ \E i \in DOMAIN RegisterStmts : Reduce(RegisterStmts[i])

ArrayDecl ==
    /\ Len(cc_text) < MaxStmts
    /\ \E i \in DOMAIN ArrayStmts : Reduce(ArrayStmts[i])

PrintStmt ==
    /\ Len(cc_text) < MaxStmts
    /\ \E i \in DOMAIN PrintStmts : Reduce(PrintStmts[i])

IfCond ==
    /\ Len(cc_text) < MaxStmts
    /\ \E i \in DOMAIN IfStmts : Reduce(IfStmts[i])

IfLt ==
    /\ Len(cc_text) < MaxStmts
    /\ \E i \in DOMAIN IfLtStmts : Reduce(IfLtStmts[i])

TypeDecl ==
    /\ Len(cc_text) < MaxTypeStmts
    /\ \E i \in DOMAIN TypeStmts : Reduce(TypeStmts[i])

VarTyped ==
    /\ Len(cc_text) < MaxTypeStmts
    /\ \E i \in DOMAIN VarTypedStmts : Reduce(VarTypedStmts[i])

FieldAssign ==
    /\ Len(cc_text) < MaxTypeStmts
    /\ \E i \in DOMAIN FieldStmts : Reduce(FieldStmts[i])

InitCompiler ==
    /\ Memory_array = << >>
    /\ LinkInit
    /\ OutputInit
    /\ InputInit
    /\ DriverInit
    /\ ToolInit

NextCompiler ==
    \/ compile_high_level_begin
    \/ AssignmentExpr
    \/ RegisterAssign
    \/ ArrayDecl
    \/ PrintStmt
    \/ IfCond
    \/ IfLt
    \/ compile_high_level_end

SpecCompiler == InitCompiler /\ [][NextCompiler]_vars

NextTypes ==
    \/ compile_high_level_begin
    \/ TypeDecl
    \/ VarTyped
    \/ FieldAssign
    \/ compile_high_level_end

SpecTypes == InitCompiler /\ [][NextTypes]_vars

(* Properties of the compiler *)

TestValues == {0, 3, 62}

\* the statement the parser reduced last, and the lines generated for it
LastStmt == cc_text[Len(cc_text)]
LastOut == cc_body[Len(cc_body)]

\* the parser has just reduced, without error, a statement of the given kind
JustReduced(kind) ==
    /\ ctx.live
    /\ cc_text # << >>
    /\ LastStmt[1] = kind

\* C14: the lines generated for dst = expr leave in dst's register the value
\* of expr computed from the values the variables had before the statement
\* (also when dst occurs in expr, as in a = b - a), and leave the registers
\* of the other variables unchanged
C14_AssignmentComputesExpression ==
    (JustReduced("assignment_expr") /\ LastStmt[3][1] = "binop") =>
        \A env \in [DOMAIN ctx.var_map -> TestValues] :
            LET run == Exec(LastOut, 1, RegistersOf(ctx.var_map, env), 0)
            IN  /\ run.regs[ctx.var_map[LastStmt[2]]] = EvalExpr(LastStmt[3], env)
                /\ \A v \in DOMAIN ctx.var_map \ {LastStmt[2]} :
                      run.regs[ctx.var_map[v]] = env[v]

\* C15: the lines generate_cond_asm produces for the condition of an if
\* transfer control to the true label exactly when the condition holds for
\* the values of the variables, and to the end label otherwise; they never
\* fall off their end
C15_CondTransfersControl ==
    JustReduced("if_cond") =>
        \A env \in [DOMAIN ctx.var_map -> TestValues] :
            LET n   == Len(LastOut)
                pre == SubSeq(LastOut, 1, n - 2)
                run == Exec(pre, 1, RegistersOf(ctx.var_map, env), 0)
            IN  run.exit = IF EvalCond(LastStmt[2], env)
                           THEN LastOut[n - 1][2]
                           ELSE LastOut[n][2]

\* the word a label of the data names, with an offset
DataWord(lines, l, off) == lines[LabelIndex(lines, l) + 1][2][off + 1]

\* the words the lines store to the first I/O address, in order: CARGA loads
\* a word of the data, GUARD to the I/O address writes the register
RECURSIVE GuardedWords(_, _, _)
GuardedWords(lines, i, regs) ==
    IF i > Len(lines) \/ lines[i][1] = "PARA" THEN << >>
    ELSE CASE lines[i][1] = "CARGA" ->
                GuardedWords(lines, i + 1,
                             [regs EXCEPT ![lines[i][2]] =
                                 DataWord(lines, lines[i][3], lines[i][4])])
           [] lines[i][1] = "GUARD" /\ lines[i][3] = << >>
                                    /\ lines[i][4] = E_S_RANGE_START ->
                << regs[lines[i][2]] >> \o GuardedWords(lines, i + 1, regs)
           [] OTHER -> GuardedWords(lines, i + 1, regs)

\* the text write_notify accumulates for the words, none being a marker
RECURSIVE DecodedText(_)
DecodedText(words) ==
    IF words = << >> THEN << >>
    ELSE DecodeWord(words[1], FALSE) \o DecodedText(Tail(words))

\* C16: the program compiled from the single statement print(s) makes the
\* write callback receive exactly s followed by one newline
C16_PrintDeliversTextAndNewline ==
    (cc_result.status = "ok" /\ Len(cc_text) = 1 /\ cc_text[1][1] = "print") =>
        DecodedText(GuardedWords(cc_result.lines, 1, [r \in 0..31 |-> ZeroWord]))
            = cc_text[1][2] \o << 10 >>

\* the type a variable was declared with, by the last var declaration of it
DeclaredType(text, var) ==
    LET decls == {i \in DOMAIN text : text[i][1] = "var_typed" /\ text[i][2] = var}
    IN  IF decls = {} THEN ""
        ELSE text[CHOOSE i \in decls : \A j \in decls : j <= i][3]

\* C17: the lines generated for v.f = expr store to M[v+k] where k is the
\* index of f in the type v was declared with, also when another type has a
\* field f at another index
C17_FieldOffsetFromOwnType ==
    (JustReduced("field_assign") /\ DeclaredType(cc_text, LastStmt[2]) # "") =>
        LET own    == DeclaredType(cc_text, LastStmt[2])
            fields == type_table[TypeIndex(type_table, own)][2]
            guard  == LastOut[Len(LastOut)]
        IN  /\ guard[1] = "GUARD"
            /\ guard[3] = <<LastStmt[2]>>
            /\ guard[4] = FieldIndex(fields, LastStmt[3])

\* C18: an assignment whose destination is one of R0..R3 is rejected with
\* SyntaxError
C18_SpecialRegistersRejected ==
    (cc_text # << >> /\ LastStmt[1] = "register_assign" /\ LastStmt[2] \in 0..3) =>
        cc_result.status = "SyntaxError"

\* C19: in the text compile_high_level returns, every .data line, and the
\* label line before it, comes after a PARA line
C19_DataAfterPara ==
    cc_result.status = "ok" =>
        \A i \in DOMAIN cc_result.lines :
            cc_result.lines[i][1] = ".data" =>
                \E j \in 1..(i - 2) : cc_result.lines[j][1] = "PARA"

\* the parse of a text from statement i on, from the given globals
RECURSIVE ParseFrom(_, _, _, _)
ParseFrom(st, text, i, body) ==
    IF i > Len(text)
    THEN [status |-> "ok", lines |-> finish(body, st.data_section)]
    ELSE LET next == p_stmt(st, text[i])
         IN  IF next.ok THEN ParseFrom(next, text, i + 1, Append(body, next.out))
             ELSE [status |-> "SyntaxError", lines |-> << >>]

\* compile_high_level(text) in a process where array_dims holds dims
compile_high_level(text, dims) ==
    ParseFrom([ctx |-> NewParserContext, type_table |-> << >>, data_section |-> << >>,
               array_dims |-> dims, out |-> << >>, ok |-> TRUE],
              text, 1, << >>)

\* C20: what compile_high_level returns or raises for a text is what it
\* returns or raises for that text in a process that compiled nothing before
C20_ResultDependsOnlyOnText ==
    cc_result.status \in {"ok", "SyntaxError"} =>
        LET fresh == compile_high_level(cc_text, << >>)
        IN  /\ cc_result.status = fresh.status
            /\ cc_result.lines = fresh.lines

-----------------------------------------------------------------------------
(* Stepping (Action.start_stepping, Action.step, Action.stop_stepping) and
   the input callback (Action.start_emulation, Action._on_input_available,
   terminal.push_input).  Each is a call made by the host; step and the
   callbacks run to their end on the calling thread. *)

MaxSteps == 2

MaxStarts == 1

MaxCalls == 2

\* Action.start_stepping(address); no further session is started once the CPU
\* has been called more than MaxCalls times
StartStepping ==
    /\ Len(cpu_calls) <= MaxCalls
    /\ \E address \in StartAddresses :
          /\ address < Len(code)
          /\ PC' = CPU_preparate(address)
    /\ is_stepping' = TRUE
    /\ EN_EJECUCION' = TRUE
    /\ step_result' = [exc |-> "none", did_para |-> FALSE]
    /\ UNCHANGED <<code, IR, CU_instruction, R4, PARA_INSTRUCTION, driver_pc,
                   cpu_calls, cpu_error, stop_requested>>
    /\ UNCHANGED <<loaderVars, outputVars, inputVars, asmVars, compVars, auxVars>>
    /\ UNCHANGED <<waiting_for_input, input_callbacks, step_count, cb_calls,
                   cb_executed>>

\* if not Action._is_stepping: raise RuntimeError(...)
step_always_allowed(stepping) == TRUE
step_allowed(stepping) == stepping

\* if did_para: Action._is_stepping = False
stepping_after(did_para, stepping) == IF did_para THEN FALSE ELSE stepping

\* Action.step(): one fetch, decode and execute; an exception of CPU.execute
\* leaves step at once; the stop instruction ends stepping
Step ==
    /\ step_count < MaxSteps
    /\ step_count' = step_count + 1
    /\ IF ~step_allowed(is_stepping)
       THEN /\ step_result' = [exc |-> "RuntimeError", did_para |-> FALSE]
            /\ UNCHANGED <<cpuVars, is_stepping, cpu_calls, cpu_error, input_queue>>
       ELSE /\ PC < Len(code)
            /\ \E wraps \in NegativeWraps :
                  LET f        == CPU_fetch(code, PC)
                      instr    == CPU_decode(f.IR)
                      r        == CPU_execute(instr, input_queue, R4,
                                              PARA_INSTRUCTION, wraps)
                      did_para == r.exc = "none" /\ r.PARA
                  IN  /\ IR' = f.IR
                      /\ PC' = f.PC
                      /\ CU_instruction' = instr
                      /\ R4' = r.R4
                      /\ input_queue' = r.queue
                      /\ cpu_calls' = cpu_calls \o <<"fetch", "decode", "execute">>
                      /\ cpu_error' = IF r.exc \in {"none", "InputNeeded"}
                                      THEN cpu_error ELSE r.exc
                      /\ is_stepping' = stepping_after(did_para, is_stepping)
                      /\ IF did_para
                         THEN CPU_refresh
                         ELSE /\ PARA_INSTRUCTION' = r.PARA
                              /\ UNCHANGED EN_EJECUCION
                      /\ step_result' = [exc |-> r.exc, did_para |-> did_para]
    /\ UNCHANGED <<code, driver_pc, stop_requested, read_result>>
    /\ UNCHANGED <<loaderVars, outputVars, asmVars, compVars, auxVars>>
    /\ UNCHANGED <<waiting_for_input, input_callbacks, cb_calls, cb_executed>>

\* Action.start_emulation(): the components are set up and the input callback
\* is registered; main calls it before any program is loaded and run
StartEmulation ==
    /\ input_callbacks < MaxStarts
    /\ driver_pc = "idle" /\ ~is_stepping /\ cpu_calls = << >>
    /\ Memory_array' = << >>
    /\ CPU_refresh
    /\ input_callbacks' = input_callbacks + 1
    /\ UNCHANGED <<code, PC, IR, CU_instruction, R4, is_stepping, driver_pc,
                   cpu_calls, cpu_error, stop_requested>>
    /\ UNCHANGED <<linkVars, outputVars, inputVars, asmVars, compVars, auxVars>>
    /\ UNCHANGED <<waiting_for_input, step_result, step_count, cb_calls, cb_executed>>

\* The CPU, the queue and the flag as _on_input_available sees them
CallbackState ==
    [waiting |-> waiting_for_input, PC |-> PC, IR |-> IR, CU |-> CU_instruction,
     R4 |-> R4, PARA |-> PARA_INSTRUCTION, EN |-> EN_EJECUCION,
     queue |-> input_queue, calls |-> cpu_calls, error |-> cpu_error,
     executed |-> 0]

\* CPU.execute() inside _on_input_available
callback_execute(s, wraps) ==
    LET r == CPU_execute(s.CU, s.queue, s.R4, s.PARA, wraps)
    IN  [exc |-> r.exc,
         s   |-> [s EXCEPT !.R4 = r.R4, !.queue = r.queue, !.PARA = r.PARA,
                           !.calls = Append(@, "execute"),
                           !.error = IF r.exc \in {"none", "InputNeeded"}
                                     THEN @ ELSE r.exc,
                           !.executed = @ + 1]]

\* while not CPU.PARA_INSTRUCTION: fetch, decode, execute; InputNeeded sets the
\* flag and returns, any other exception is swallowed by the outer handler;
\* CPU.refresh() after the loop
RECURSIVE callback_loop(_, _)
callback_loop(s, wraps) ==
    IF s.PARA THEN [s EXCEPT !.EN = FALSE, !.PARA = FALSE]
    ELSE IF s.PC >= Len(code) THEN s
    ELSE LET f == CPU_fetch(code, s.PC)
             d == [s EXCEPT !.IR = f.IR, !.PC = f.PC, !.CU = CPU_decode(f.IR),
                            !.calls = @ \o <<"fetch", "decode">>]
             e == callback_execute(d, wraps)
         IN  CASE e.exc = "none"        -> callback_loop(e.s, wraps)
               [] e.exc = "InputNeeded" -> [e.s EXCEPT !.waiting = TRUE]
               [] OTHER                 -> e.s

\* if not Action._waiting_for_input: return
callback_never_returns(waiting) == FALSE
callback_returns(waiting) == ~waiting

\* Action._on_input_available()
on_input_available(s, wraps) ==
    IF callback_returns(s.waiting) THEN s
    ELSE LET e == callback_execute(s, wraps)
         IN  CASE e.exc = "none"        ->
                     callback_loop([e.s EXCEPT !.waiting = FALSE], wraps)
               [] e.exc = "InputNeeded" -> [e.s EXCEPT !.waiting = TRUE]
               [] OTHER                 -> e.s

\* for cb in list(_input_callbacks): cb()
RECURSIVE run_callbacks(_, _, _)
run_callbacks(n, s, wraps) ==
    IF n = 0 THEN s ELSE run_callbacks(n - 1, on_input_available(s, wraps), wraps)

HostTexts == {Text42}

\* terminal.push_input(text) with the registered callbacks run on the caller
PushInputNotify ==
    /\ Len(input_queue) < MaxInputs
    /\ \E text \in HostTexts, wraps \in NegativeWraps :
          \E s \in {run_callbacks(input_callbacks,
                                  [CallbackState EXCEPT
                                      !.queue = Append(@, encode_str_to_uint64(text))],
                                  wraps)} :
              /\ input_queue' = s.queue
              /\ waiting_for_input' = s.waiting
              /\ PC' = s.PC
              /\ IR' = s.IR
              /\ CU_instruction' = s.CU
              /\ R4' = s.R4
              /\ PARA_INSTRUCTION' = s.PARA
              /\ EN_EJECUCION' = s.EN
              /\ cpu_calls' = s.calls
              /\ cpu_error' = s.error
              /\ cb_executed' = cb_executed + s.executed
    /\ cb_calls' = cb_calls + input_callbacks
    /\ UNCHANGED <<code, is_stepping, driver_pc, stop_requested, read_result>>
    /\ UNCHANGED <<loaderVars, outputVars, asmVars, compVars, auxVars>>
    /\ UNCHANGED <<input_callbacks, step_result, step_count>>

HostPrograms == {<<"CARGA_IO", "PARA">>}

InitHost ==
    /\ Memory_array = << >>
    /\ LinkInit
    /\ OutputInit
    /\ InputInit
    /\ \E program \in HostPrograms : DriverInitWith(program)
    /\ ToolInit

NextHost ==
    \/ StartEmulation
    \/ ExecuteProgamStart
    \/ LoopFetch
    \/ Decode
    \/ Execute
    \/ WaitInput
    \/ ReExecute
    \/ Refresh
    \/ PushInputNotify
    \/ StopEmulation
    \/ StopStepping
    \/ StartStepping
    \/ Step

SpecHost == InitHost /\ [][NextHost]_vars

InitStepping == InitDriver

NextStepping ==
    \/ StartStepping
    \/ Step
    \/ StopStepping
    \/ PushInput

SpecStepping == InitStepping /\ [][NextStepping]_vars

-----------------------------------------------------------------------------
(* Properties of stepping and of the input callback *)

\* C21: a call of Action.step made while stepping is not active (before any
\* start_stepping, after stop_stepping, after the step that executed the stop
\* instruction) raises RuntimeError and makes no fetch, decode or execute: the
\* CPU, the memory and the input queue are unchanged; the step that executes
\* the stop instruction returns the halted flag true and ends stepping.
C21_StepOutsideSteppingRaises ==
    [][step_count' # step_count =>
          /\ ~is_stepping =>
                /\ step_result'.exc = "RuntimeError"
                /\ UNCHANGED <<cpuVars, cpu_calls, Memory_array, input_queue>>
          /\ (is_stepping /\ CU_instruction' = "PARA") =>
                /\ step_result' = [exc |-> "none", did_para |-> TRUE]
                /\ ~is_stepping'
      ]_vars

\* C21 witness: the step that executed the stop instruction ended stepping
\* and the following step raised RuntimeError
C21_Witness ==
    /\ step_result.exc = "RuntimeError"
    /\ ~is_stepping
    /\ ~stop_requested
    /\ Len(cpu_calls) >= 3
    /\ CU_instruction = "PARA"

\* C22: in stepping mode, when the instruction of a step raised InputNeeded
\* and input has been pushed since, the next Action.step call re-issues that
\* same instruction: same IR, PC not advanced a second time, the input taken.
C22_StepReissuesAfterInput ==
    [][(/\ step_count' # step_count
        /\ is_stepping
        /\ step_result.exc = "InputNeeded"
        /\ has_input(input_queue))
          => (IR' = IR /\ PC' = PC /\ input_queue' = Tail(input_queue))]_vars

-----------------------------------------------------------------------------
(* Register allocation within one compilation: the calls reg_for(var) and
   new_temp() made, in any order, on the ParserContext that
   compile_high_level created *)

RegVars == {NameA, NameB, NameX}

\* a call ctx.reg_for(var) made by a grammar action
RegForCall ==
    /\ ctx.live
    /\ \E var \in RegVars :
          LET a == reg_for(ctx, var)
          IN  /\ ctx' = a.ctx
              /\ reg_call' = [op |-> "reg_for", var |-> var, r |-> a.r]
    /\ UNCHANGED <<type_table, data_section, array_dims, cc_text, cc_body,
                   cc_result, cc_count>>
    /\ UNCHANGED <<loaderVars, outputVars, inputVars, driverVars, asmVars, hostVars>>
    /\ UNCHANGED <<pi_text, pi_result, pp_files, pp_result, in_texts>>

\* a call ctx.new_temp() made by a grammar action
NewTempCall ==
    /\ ctx.live
    /\ LET t == new_temp(ctx)
       IN  /\ ctx' = t.ctx
           /\ reg_call' = [op |-> "new_temp", var |-> "", r |-> t.r]
    /\ UNCHANGED <<type_table, data_section, array_dims, cc_text, cc_body,
                   cc_result, cc_count>>
    /\ UNCHANGED <<loaderVars, outputVars, inputVars, driverVars, asmVars, hostVars>>
    /\ UNCHANGED <<pi_text, pi_result, pp_files, pp_result, in_texts>>

\* compile_high_level has just created the context: ctx = ParserContext()
InitRegs ==
    /\ Memory_array = << >>
    /\ LinkInit
    /\ OutputInit
    /\ InputInit
    /\ DriverInit
    /\ AsmInit
    /\ HostInit
    /\ AuxInit
    /\ ctx = NewParserContext
    /\ type_table = << >>
    /\ data_section = << >>
    /\ array_dims = << >>
    /\ cc_text = << >>
    /\ cc_body = << >>
    /\ cc_result = [status |-> "none", lines |-> << >>]
    /\ cc_count = 1

NextRegs ==
    \/ RegForCall
    \/ NewTempCall

SpecRegs == InitRegs /\ [][NextRegs]_vars

\* the registers of the user variables
UserRegisters(c) == {c.var_map[v] : v \in DOMAIN c.var_map}

\* C24: within one compilation, after any sequence of reg_for and new_temp
\* calls, every register returned lies in [4, 15], and reg_for returns the
\* same register for the same variable name every time.
C24_RegistersInRangeAndStable ==
    /\ [](/\ reg_call.op # "none"
               => (reg_start <= reg_call.r /\ reg_call.r <= reg_end)
          /\ \A v \in DOMAIN ctx.var_map :
                reg_start <= ctx.var_map[v] /\ ctx.var_map[v] <= reg_end)
    /\ [][/\ \A v \in DOMAIN ctx.var_map :
                v \in DOMAIN ctx'.var_map /\ ctx'.var_map[v] = ctx.var_map[v]
          /\ (reg_call' # reg_call /\ reg_call'.op = "reg_for"
                /\ reg_call'.var \in DOMAIN ctx.var_map)
                => reg_call'.r = ctx.var_map[reg_call'.var]
         ]_vars

\* C24 witness: a variable is asked for again after the allocator has wrapped
\* around, and gets the register it was given first
C24_Witness ==
    /\ reg_call.op = "reg_for"
    /\ reg_call.r = reg_end
    /\ ctx.next_reg < reg_call.r
    /\ Cardinality(DOMAIN ctx.var_map) = Cardinality(RegVars)

\* C29: within one compilation no two distinct user variables share a
\* register, and no register returned by new_temp is the register of a user
\* variable already in var_map.
C29_NoRegisterShared ==
    /\ \A v, w \in DOMAIN ctx.var_map :
          v # w => ctx.var_map[v] # ctx.var_map[w]
    /\ reg_call.op = "new_temp" => reg_call.r \notin UserRegisters(ctx)

\* C26: for "if x < y:" over two variables the generated lines execute the
\* block exactly when x < y as signed values; when x equals y the block is
\* skipped.
C26_IfLtExecutesBodyIffLess ==
    JustReduced("if_lt") =>
        \A env \in [DOMAIN ctx.var_map -> TestValues \cup {-3}] :
            LET run  == Exec(LastOut, 1, RegistersOf(ctx.var_map, env), 0)
                body == LastStmt[4]
            IN  (run.regs[ctx.var_map[body[2]]] = body[3][2])
                    <=> (env[LastStmt[2]] < env[LastStmt[3]])

-----------------------------------------------------------------------------
(* _preprocess_indentation (model/compilador/parser_spl.py).  A raw line is
   its number of leading spaces and the text after them, as character codes;
   a line of the output is BEGIN, END or a line of the text. *)

MaxLines == 3

\* str.lower() on ASCII text
Lower(s) == [i \in DOMAIN s |-> IF 65 <= s[i] /\ s[i] <= 90 THEN s[i] + 32 ELSE s[i]]

\* str.startswith(prefix)
StartsWith(s, prefix) ==
    Len(s) >= Len(prefix) /\ SubSeq(s, 1, Len(prefix)) = prefix

WordBegin == <<98, 101, 103, 105, 110>>
WordEnd == <<101, 110, 100>>

OutBegin == [kw |-> "BEGIN", text |-> <<66, 69, 71, 73, 78>>]
OutEnd == [kw |-> "END", text |-> <<69, 78, 68>>]
OutLine(text) == [kw |-> "", text |-> text]

\* while leading < indent_stack[-1]: pop; the first pop of a line that starts
\* with 'end' emits nothing, every other pop emits END
RECURSIVE pop_levels(_, _, _)
pop_levels(st, leading, skip_one_end) ==
    IF leading < st.indent_stack[Len(st.indent_stack)]
    THEN LET popped == [st EXCEPT
                           !.indent_stack = SubSeq(@, 1, Len(@) - 1),
                           !.popped = @ + 1]
         IN  IF skip_one_end
             THEN pop_levels(popped, leading, FALSE)
             ELSE pop_levels([popped EXCEPT !.out = Append(@, OutEnd)], leading, FALSE)
    ELSE st

\* the body of the for loop, for one raw line
indent_line(st, raw) ==
    IF raw.text = << >>
    THEN [st EXCEPT !.out = Append(@, OutLine(raw.text))]
    ELSE LET next_stripped == Lower(raw.text)
             deeper        == raw.leading > st.indent_stack[Len(st.indent_stack)]
             pushed        ==
                 IF deeper
                 THEN [st EXCEPT
                          !.indent_stack = Append(@, raw.leading),
                          !.pushed = @ + 1,
                          !.out = IF StartsWith(st.prev_stripped, WordBegin)
                                  THEN @ ELSE Append(@, OutBegin)]
                 ELSE st
             dedented      == pop_levels(pushed, raw.leading,
                                         StartsWith(Lower(raw.text), WordEnd))
         IN  [dedented EXCEPT !.out = Append(@, OutLine(raw.text)),
                              !.prev_stripped = next_stripped]

\* while len(indent_stack) > 1: pop and emit END
RECURSIVE close_levels(_)
close_levels(st) ==
    IF Len(st.indent_stack) > 1
    THEN close_levels([st EXCEPT !.indent_stack = SubSeq(@, 1, Len(@) - 1),
                                 !.popped = @ + 1,
                                 !.out = Append(@, OutEnd)])
    ELSE st

RECURSIVE indent_lines(_, _)
indent_lines(st, lines) ==
    IF lines = << >> THEN st
    ELSE indent_lines(indent_line(st, lines[1]), Tail(lines))

\* _preprocess_indentation(text): the output lines, with the final stack and
\* the numbers of levels pushed and popped
preprocess_indentation(lines) ==
    LET st == close_levels(indent_lines(
                  [out |-> << >>, indent_stack |-> <<0>>, prev_stripped |-> << >>,
                   pushed |-> 0, popped |-> 0], lines))
    IN  [out |-> st.out, indent_stack |-> st.indent_stack,
         pushed |-> st.pushed, popped |-> st.popped]

(* Inputs: a = 1, Endv = 2, begins = 1, the keywords begin and end, and a
   blank line, at three indentations *)

LineTexts == {<<97, 61, 49>>, <<69, 110, 100, 118, 61, 50>>,
              <<98, 101, 103, 105, 110, 115, 61, 49>>, WordBegin, WordEnd, << >>}

Leadings == {0, 2, 4}

RawLines == [leading : Leadings, text : LineTexts]

PreprocessIndentation ==
    /\ pi_text = << >>
    /\ \E lines \in SeqsUpTo(RawLines, MaxLines) :
          /\ lines # << >>
          /\ pi_text' = lines
          /\ pi_result' = preprocess_indentation(lines)
    /\ UNCHANGED <<reg_call, pp_files, pp_result, in_texts>>
    /\ UNCHANGED <<loaderVars, outputVars, inputVars, driverVars, asmVars, compVars,
                   hostVars>>

InitIndent == InitCompiler

NextIndent == PreprocessIndentation

SpecIndent == InitIndent /\ [][NextIndent]_vars

\* no line of the text is the keyword begin or end
NoBlockKeyword(lines) ==
    \A i \in DOMAIN lines : Lower(lines[i].text) \notin {WordBegin, WordEnd}

CountOf(out, kw) == Cardinality({i \in DOMAIN out : out[i].kw = kw})

\* C27: for every sequence of source lines with no literal begin or end
\* keyword, _preprocess_indentation emits one BEGIN per indentation increase
\* and one END per level popped, so that in every prefix of the output the
\* ENDs never outnumber the BEGINs, and at the end the counts are equal and
\* the indentation stack is back to its single initial level.
C27_BeginEndBalanced ==
    (pi_text # << >> /\ NoBlockKeyword(pi_text)) =>
        /\ CountOf(pi_result.out, "BEGIN") = pi_result.pushed
        /\ CountOf(pi_result.out, "END") = pi_result.popped
        /\ \A n \in 0..Len(pi_result.out) :
              CountOf(SubSeq(pi_result.out, 1, n), "END")
                 <= CountOf(SubSeq(pi_result.out, 1, n), "BEGIN")
        /\ CountOf(pi_result.out, "END") = CountOf(pi_result.out, "BEGIN")
        /\ pi_result.indent_stack = <<0>>

-----------------------------------------------------------------------------
(* The preprocessor (model/preprocesador/preprocessor.py).  The files are
   named by their canonical paths 1, 2, ...; a line of a file is a line of
   text or an #include of a file name, a name being a path and one of its
   spellings ("lib.spl", "./lib.spl"); path 0 names a file that does not
   exist.  A line of the output is a line of text of a file, or one of the
   comments that process_text writes around and instead of an inclusion. *)

MaxItems == 2

SourceFiles == {1, 2}

Spellings == {"plain", "dotted"}

TextLine == [k |-> "text", path |-> 0, spelling |-> "plain"]
IncludeLine(path, spelling) == [k |-> "include", path |-> path, spelling |-> spelling]

FileLines == {TextLine} \cup {IncludeLine(g, sp) : g \in SourceFiles \cup {0},
                                                  sp \in Spellings}

\* (current_file.parent / include_filename).resolve()
resolve(name) == name.path

OutText(file, pos) == [k |-> "text", path |-> file, pos |-> pos]
OutComment(k, path) == [k |-> k, path |-> path, pos |-> 0]

\* process_text from line i of the file on: text lines are appended (there
\* is no #define in these files), an #include of a missing file raises
\* PreprocessorError, an #include of a path in included_files leaves a
\* comment, any other is recorded in included_files and processed in place
RECURSIVE process_text(_, _, _, _)
process_text(files, current_file, i, st) ==
    IF ~st.ok \/ i > Len(files[current_file]) THEN st
    ELSE LET line == files[current_file][i]
             include_path == resolve(line)
         IN  IF line.k = "text"
             THEN process_text(files, current_file, i + 1,
                     [st EXCEPT !.out = Append(@, OutText(current_file, i))])
             ELSE IF include_path \notin DOMAIN files
             THEN [st EXCEPT !.ok = FALSE]
             ELSE IF include_path \in st.included_files
             THEN process_text(files, current_file, i + 1,
                     [st EXCEPT !.out = Append(@, OutComment("ya incluido", include_path))])
             ELSE LET inner == process_text(files, include_path, 1,
                                  [st EXCEPT
                                      !.included_files = @ \cup {include_path},
                                      !.out = Append(@, OutComment("BEGIN", include_path))])
                  IN  process_text(files, current_file, i + 1,
                          [inner EXCEPT !.out = Append(@, OutComment("END", include_path))])

\* preprocess(source_text, source_file): defines = {}, included_files = set()
preprocess(files, source_file) ==
    LET st == process_text(files, source_file, 1,
                  [ok |-> TRUE, included_files |-> {}, out |-> << >>])
    IN  IF st.ok THEN [status |-> "ok", out |-> st.out]
        ELSE [status |-> "PreprocessorError", out |-> << >>]

\* preprocess_file(file_path) on the root file, path 1
Preprocess ==
    /\ pp_files = << >>
    /\ \E files \in [SourceFiles -> SeqsUpTo(FileLines, MaxItems)] :
          /\ pp_files' = files
          /\ pp_result' = preprocess(files, 1)
    /\ UNCHANGED <<reg_call, pi_text, pi_result, in_texts>>
    /\ UNCHANGED <<loaderVars, outputVars, inputVars, driverVars, asmVars, compVars,
                   hostVars>>

InitPreprocess == InitCompiler

NextPreprocess == Preprocess

SpecPreprocess == InitPreprocess /\ [][NextPreprocess]_vars

\* how many times line pos of the file is in the output
Copies(out, file, pos) ==
    Cardinality({j \in DOMAIN out : out[j] = OutText(file, pos)})

\* C23: for every set of source files and every include graph among them,
\* cyclic ones and a file that includes itself included, preprocess
\* terminates (returns or raises) and the content of each canonical file
\* path is in the output at most once.
C23_EachFileInsertedAtMostOnce ==
    pp_files # << >> =>
        /\ pp_result.status \in {"ok", "PreprocessorError"}
        /\ \A file \in DOMAIN pp_files : \A pos \in DOMAIN pp_files[file] :
              Copies(pp_result.out, file, pos) <= 1

-----------------------------------------------------------------------------
(* Input encoding end to end: push_input(text), then the Memory.read that
   serves the entry *)

\* "18446744073709551617", which is 2^64 + 1
TextBig == <<49, 56, 52, 52, 54, 55, 52, 52, 48, 55,
             51, 55, 48, 57, 53, 53, 49, 54, 49, 55>>

\* " 7 "
TextSeven == <<32, 55, 32>>

EncodeTexts == {Text42, TextHi, TextMinus1, TextBig, TextSeven, TextHiThere}

\* push_input(text) from the host
PushText ==
    /\ Len(input_queue) < MaxInputs
    /\ \E text \in EncodeTexts :
          /\ push_input(text)
          /\ in_texts' = Append(in_texts, text)
    /\ UNCHANGED <<reg_call, pi_text, pi_result, pp_files, pp_result>>
    /\ UNCHANGED <<Memory_array, linkVars, outputVars, driverVars, asmVars, compVars,
                   hostVars>>

\* Memory.read(direction) by the program; text is the text of the entry the
\* read popped
ReadInput ==
    /\ \E direction \in ReadAddrs, wraps \in NegativeWraps :
          LET r      == Memory_read(Memory_array, input_queue, direction, wraps)
              popped == Len(r.queue) < Len(input_queue)
          IN  /\ input_queue' = r.queue
              /\ in_texts' = IF popped THEN Tail(in_texts) ELSE in_texts
              /\ read_result' = [kind            |-> r.kind,
                                 value           |-> r.value,
                                 direction       |-> direction,
                                 queue_was_empty |-> ~has_input(input_queue),
                                 popped          |-> popped,
                                 text            |-> IF popped THEN in_texts[1]
                                                     ELSE << >>]
    /\ UNCHANGED <<reg_call, pi_text, pi_result, pp_files, pp_result>>
    /\ UNCHANGED <<Memory_array, linkVars, outputVars, driverVars, asmVars, compVars,
                   hostVars>>

InitEncode == InitInput

NextEncode ==
    \/ PushText
    \/ ReadInput

SpecEncode == InitEncode /\ [][NextEncode]_vars

\* the 64-bit word the text stands for: the integer, reduced to 64 bits in
\* two's complement, for a decimal integer; the first 8 UTF-8 bytes, packed
\* little-endian, for any other text
ExpectedWord(text) ==
    CASE text = Text42      -> PadLeft(<<"1", "0", "1", "0", "1", "0">>, WORDS_SIZE_BITS)
      [] text = TextSeven   -> PadLeft(<<"1", "1", "1">>, WORDS_SIZE_BITS)
      [] text = TextMinus1  -> Rep("1", WORDS_SIZE_BITS)
      [] text = TextBig     -> PadLeft(<<"1">>, WORDS_SIZE_BITS)
      [] text = TextHi      -> FromBytesLittle(<<104, 105, 0, 0, 0, 0, 0, 0>>)
      [] text = TextHiThere -> FromBytesLittle(<<104, 105, 32, 116, 104, 101, 114, 101>>)

\* C25: for every text pushed with push_input, the read from the I/O range
\* that takes the entry returns the integer as a 64-bit word when the text is
\* a decimal integer (negative ones and ones of 2^64 or more included), and
\* otherwise the first up to 8 UTF-8 bytes packed little-endian: an entry is
\* never popped and lost.
C25_ReadReturnsPushedValue ==
    (read_result.kind = "value" /\ InESRange(read_result.direction)
        /\ ~read_result.queue_was_empty)
        => /\ read_result.popped
           /\ read_result.value = ExpectedWord(read_result.text)

-----------------------------------------------------------------------------
(* The pipeline of the Ejecutar button (view/interfaz.py): the source is
   assembled and the words are loaded, joined by line breaks, at the base
   address the user gave *)

ImageBases == {0, 1, 256}

\* bin_text = "\n".join(insts) + "\n"; Action.load_machine_code(bin_text,
\* direccion_int)
LoadAssembled ==
    /\ as_result.status = "ok"
    /\ load_result.status = "none"
    /\ load_count' = load_count + 1
    /\ \E direccion_int \in ImageBases :
          load_machine_code(JoinLines(as_result.words), direccion_int)
    /\ UNCHANGED <<outputVars, inputVars, driverVars, toolVars>>

InitPipeline == InitAsm

NextPipeline ==
    \/ AssembleText
    \/ LoadAssembled

SpecPipeline == InitPipeline /\ [][NextPipeline]_vars

\* C28: for an image produced by assemble_text and loaded at base address B,
\* every operand that references a label L (jump target, M[L], M[L+k] or an
\* immediate label) designates the memory cell B + index(L) (+ k), the cell
\* where the word that follows L was loaded, for every B of the code range.
C28_LabelOperandsFollowBase ==
    (as_result.status = "ok" /\ load_result.status = "ok") =>
        \A i \in DOMAIN as_source :
            as_source[i].kind = "instr" =>
                \A j \in DOMAIN as_source[i].args :
                    LET tok == as_source[i].args[j]
                    IN  tok.k \in {"memlbl", "lbl"} =>
                            LastField(Memory_array[load_address
                                                   + WordsBefore(as_source, i)],
                                      as_source[i].mn)
                              = load_address
                                + WordsBefore(as_source, LabelDecl(as_source, tok.lbl))
                                + tok.n

====
